---------------------------- MODULE Spec2Model ----------------------------
(***************************************************************************)
(* A model of the shi interpreter core (src/src/shi.c): the error / trap   *)
(* machinery (error, prim_error, prim_trap_error), the prototype-chained   *)
(* object and environment model (obj_hash .. obj_del, env_get, env_set,    *)
(* push_env, prim_def ...), and the allocator with its copying collector.  *)
(*                                                                         *)
(* The module holds several specifications over one set of variables; each *)
(* drives one subsystem and leaves the variables of the others unchanged.  *)
(***************************************************************************)
EXTENDS Integers, Sequences, FiniteSets, TLC

(***************************************************************************)
(* Value tags (enum at shi.c:61-81) and the statically allocated Nil.      *)
(***************************************************************************)
TINT  == "TINT"
TSTR  == "TSTR"
TCELL == "TCELL"
TSYM  == "TSYM"
TOBJ  == "TOBJ"
TFUN  == "TFUN"
TNIL  == "TNIL"
TMAC  == "TMAC"
TTRUE == "TTRUE"
TPRI  == "TPRI"

Nil == [type |-> TNIL]
True == [type |-> TTRUE]

make_int(n) == [type |-> TINT, intv |-> n]
make_str(s) == [type |-> TSTR, strv |-> s]
make_symbol(s) == [type |-> TSYM, symv |-> s]
ObjRef(i) == [type |-> TOBJ, id |-> i]

\* the outcome of an operation that called error(msg)
Err(m) == [type |-> "error", msg |-> m]

(***************************************************************************)
(* Bounds of the model.                                                    *)
(***************************************************************************)
\* prim_trap_error activations that may be in progress (nested) at once
MaxNest == 2
\* integer payloads 1..MaxVal
MaxVal == 2

Ints == 1..MaxVal
IntVals == {make_int(n) : n \in Ints}

(***************************************************************************)
(* ERROR / TRAP MACHINERY  (shi.c:33-54, 1812-1855)                        *)
(***************************************************************************)
MAX_ERROR_DEPTH == 25

VARIABLES
  error_depth,    \* static int error_depth
  error_value,    \* static char *error_value ("" before the first error)
  error_jmp_env,  \* jmp_buf error_jmp_env[MAX_ERROR_DEPTH]: per slot, the
                  \* prim_trap_error activation whose setjmp filled it, as its
                  \* position in traps; Unset before any setjmp; Dead once
                  \* that activation has returned or has been unwound (the
                  \* C semantics of a jmp_buf whose function has terminated)
  traps,          \* the prim_trap_error activations on the C stack,
                  \* outermost first: [phase, arg]
  proc,           \* "running", or how the process ended
  ev              \* the last step taken, for stating the claims

trapVars == <<error_depth, error_value, error_jmp_env, traps, proc, ev>>
trapVars_but_ev == <<error_depth, error_value, error_jmp_env, traps, proc>>

Unset == 0
Dead  == -1

Slots == 0..(MAX_ERROR_DEPTH - 1)

\* messages of the user-level `error` primitive
UserMsgs == {"boom"}
\* message of an evaluator / primitive check (shi.c:1165, 1173)
CheckMsg == "eval: undefined symbol: x"
\* messages of the runtime's fatal conditions (shi.c:292, 423)
MemoryMsg == "Memory exhausted"
CollectorMsg == "bug: copy: unknown type"

\* ev: op names the step; kind, msg, inner, depth describe a raised error
\* (who raised it, its message, the innermost trap-error call whose thunk
\* was in progress, error_depth before); o, k, val are the step's operands
\* and out its result
NoEv == [op |-> "none", kind |-> "none", msg |-> "", inner |-> 0,
         depth |-> 0, o |-> Nil, k |-> Nil, val |-> Nil, out |-> Nil]

\* position of the innermost trap-error activation whose thunk is still
\* being evaluated (0 when there is none)
RECURSIVE InnermostThunk(_, _)
InnermostThunk(ts, p) ==
  IF p = 0 THEN 0
  ELSE IF ts[p].phase = "thunk" THEN p ELSE InnermostThunk(ts, p - 1)

\* a jmp_buf of an activation at a position above p no longer denotes a
\* live activation once the stack is cut back to p
KillAbove(jmp, p) ==
  [i \in Slots |-> IF jmp[i] > p THEN Dead ELSE jmp[i]]

TrapInit ==
  /\ error_depth = 0
  /\ error_value = ""
  /\ error_jmp_env = [i \in Slots |-> Unset]
  /\ traps = <<>>
  /\ proc = "running"
  /\ ev = NoEv

(***************************************************************************)
(* error(error_v), shi.c:43-54.  cause: the step that raised it; kind: the *)
(* class of the error.                                                     *)
(*   error_depth > 0: error_depth--, longjmp(error_jmp_env[error_depth]).  *)
(*     The landing site is prim_trap_error's `trapped != 0` branch         *)
(*     (shi.c:1845-1850): the message becomes a String and the call        *)
(*     (error_fn msg) is evaluated.  A longjmp into an activation that has *)
(*     already returned is undefined: the process crashes or resumes in    *)
(*     the dead activation.                                                *)
(*   otherwise: "unhandled error: <msg>" is printed and exit(1).           *)
(***************************************************************************)
error(cause, kind, m) ==
  /\ error_value' = m
  /\ ev' = [cause EXCEPT !.kind = kind, !.msg = m,
                         !.inner = InnermostThunk(traps, Len(traps)),
                         !.depth = error_depth, !.out = Err(m)]
  /\ IF error_depth > 0
     THEN LET d == error_depth - 1
              p == error_jmp_env[d]
          IN /\ error_depth' = d
             /\ IF p > 0
                THEN /\ traps' = [SubSeq(traps, 1, p) EXCEPT ![p] =
                                    [phase |-> "handler", arg |-> make_str(m)]]
                     /\ error_jmp_env' = KillAbove(error_jmp_env, p)
                     /\ proc' = "running"
                ELSE /\ proc' \in {"undefined: crash", "undefined: resumed in a returned trap-error"}
                     /\ UNCHANGED <<traps, error_jmp_env>>
     ELSE /\ proc' = "exit 1: unhandled error"
          /\ UNCHANGED <<error_depth, traps, error_jmp_env>>

\* (error message), shi.c:1815-1824
prim_error(m) ==
  /\ proc = "running"
  /\ error([NoEv EXCEPT !.op = "error"], "user", m)

\* an evaluator or primitive check failing, e.g. eval of an unbound symbol
\* (shi.c:1163-1173)
eval_check_error ==
  /\ proc = "running"
  /\ error([NoEv EXCEPT !.op = "eval"], "check", CheckMsg)

\* alloc, shi.c:288-292: the request cannot be satisfied after the GC
alloc_memory_exhausted ==
  /\ proc = "running"
  /\ error([NoEv EXCEPT !.op = "alloc"], "memory", MemoryMsg)

\* gc, shi.c:421-423: the scan meets an unknown tag
gc_unknown_type ==
  /\ proc = "running"
  /\ error([NoEv EXCEPT !.op = "gc"], "collector", CollectorMsg)

(***************************************************************************)
(* prim_trap_error, shi.c:1827-1855, up to the evaluation of (fn).         *)
(* fnT, efnT: the tags of the two evaluated arguments.                     *)
(***************************************************************************)
prim_trap_error(fnT, efnT) ==
  /\ proc = "running"
  /\ IF fnT # TFUN \/ efnT # TFUN
     THEN error([NoEv EXCEPT !.op = "trap-error"], "check", "trap-error: both args must be functions")
     ELSE IF error_depth >= MAX_ERROR_DEPTH
     THEN /\ proc' = "exit 1: max error depth"
          /\ ev' = [NoEv EXCEPT !.op = "overflow", !.kind = "rescue",
                                !.depth = error_depth,
                                !.inner = InnermostThunk(traps, Len(traps))]
          /\ UNCHANGED <<error_depth, error_value, error_jmp_env, traps>>
     ELSE /\ Len(traps) < MaxNest
          /\ error_jmp_env' = [error_jmp_env EXCEPT ![error_depth] = Len(traps) + 1]
          /\ error_depth' = error_depth + 1
          /\ traps' = Append(traps, [phase |-> "thunk", arg |-> Nil])
          /\ ev' = [NoEv EXCEPT !.op = "enter", !.depth = error_depth]
          /\ UNCHANGED <<error_value, proc>>

\* the tail of prim_trap_error (shi.c:1852-1854): (fn) has been evaluated
\* without error and its value v is returned
trap_thunk_return(v) ==
  /\ proc = "running"
  /\ traps # <<>>
  /\ traps[Len(traps)].phase = "thunk"
  /\ traps' = SubSeq(traps, 1, Len(traps) - 1)
  /\ error_jmp_env' = KillAbove(error_jmp_env, Len(traps) - 1)
  /\ ev' = [NoEv EXCEPT !.op = "return", !.kind = "thunk", !.val = v,
                        !.out = v, !.depth = error_depth]
  /\ UNCHANGED <<error_depth, error_value, proc>>

\* the tail of prim_trap_error on the trapped path (shi.c:1846-1854):
\* (error_fn msg) has been evaluated and its value v is returned
trap_handler_return(v) ==
  /\ proc = "running"
  /\ traps # <<>>
  /\ traps[Len(traps)].phase = "handler"
  /\ traps' = SubSeq(traps, 1, Len(traps) - 1)
  /\ error_jmp_env' = KillAbove(error_jmp_env, Len(traps) - 1)
  /\ ev' = [NoEv EXCEPT !.op = "return", !.kind = "handler", !.val = v,
                        !.out = v, !.msg = traps[Len(traps)].arg.strv,
                        !.depth = error_depth]
  /\ UNCHANGED <<error_depth, error_value, proc>>

(***************************************************************************)
(* OBJECTS  (shi.c:500-634)                                                *)
(*                                                                         *)
(* objs[i] is heap object i of tag TOBJ: used (allocated), proto, and      *)
(* props, the OBJ_HM_SIZE bucket heads.  A bucket is the association list  *)
(* of (key . value) cells, head first, as a sequence of <<key, value>>.    *)
(***************************************************************************)
OBJ_HM_SIZE == 32

\* objects the heap may hold (the global environment is object 1)
MaxObj == 3
\* operations of one run of SpecObj / SpecEnv
MaxOps == 3

VARIABLES
  objs,   \* the TOBJ objects of the heap
  envs,   \* the `env` handles of the closure calls in progress, outermost
          \* (the top-level handle of main / shi_init_cb) first; each holds
          \* the id of an environment object
  steps   \* operations performed so far

objVars == <<objs, envs, steps>>

ObjIds == 1..MaxObj
Buckets == 0..(OBJ_HM_SIZE - 1)

NoObj == [used |-> FALSE, proto |-> Nil, props |-> [b \in Buckets |-> <<>>]]

\* cons cells, for argument and parameter lists
cons(a, d) == [type |-> TCELL, car |-> a, cdr |-> d]

\* the bytes of the C strings the model uses (char codes)
Bytes(s) ==
  CASE s = "a" -> <<97>>
    [] s = "b" -> <<98>>
    [] s = "r" -> <<114>>
    [] s = "u" -> <<117>>

\* sprintf(buf, "%d", n) for n >= 0, shi.c:534-537
RECURSIVE Decimal(_)
Decimal(n) ==
  IF n < 10 THEN <<48 + n>> ELSE Append(Decimal(n \div 10), 48 + (n % 10))

\* The hash is computed in a u_int64_t.  The model keeps its low 30 bits,
\* which is exact for the one-byte keys used here: no intermediate value
\* reaches 2^30 before the last shift, and the result is taken modulo 32.
Low30 == 2^30

RECURSIVE Xor(_, _)
Xor(a, b) ==
  IF a = 0 THEN b
  ELSE IF b = 0 THEN a
  ELSE (((a % 2) + (b % 2)) % 2) + 2 * Xor(a \div 2, b \div 2)

\* the low 30 bits of h + (h << s)
AddShl(h, s) == (h + (h % (2^(30 - s))) * (2^s)) % Low30

RECURSIVE OneAtATime(_, _)
OneAtATime(hash, bytes) ==
  IF bytes = <<>> THEN hash
  ELSE LET h1 == (hash + Head(bytes)) % Low30
           h2 == AddShl(h1, 10)
           h3 == Xor(h2, h2 \div (2^6))
       IN OneAtATime(h3, Tail(bytes))

\* obj_valid_key, shi.c:557-560
obj_valid_key(key) == key.type \in {TSYM, TSTR, TINT}

\* the tags obj_hash accepts, shi.c:529-540; any other key is an error
hashable(key) == key.type = TSTR \/ key.type = TSYM \/ key.type = TINT

\* obj_hash, shi.c:524-555, of a key it accepts
obj_hash_of(key) ==
  LET keyval == CASE key.type = TSTR -> Bytes(key.strv)
                  [] key.type = TSYM -> Bytes(key.symv)
                  [] key.type = TINT -> Decimal(key.intv)
      h0 == OneAtATime(0, keyval)
      h1 == AddShl(h0, 3)
      h2 == Xor(h1, h1 \div (2^11))
      h3 == AddShl(h2, 15)
  IN h3 % OBJ_HM_SIZE

\* the keys of the model, and their hashes computed once
KeyUniverse ==
  {make_symbol(n) : n \in {"a", "b", "r"}} \cup {make_str("a")}
    \cup {make_int(n) : n \in 1..MaxVal}

HashOf == [key \in KeyUniverse |-> obj_hash_of(key)]

obj_hash(key) == HashOf[key]

\* obj_key_eq, shi.c:562-572
obj_key_eq(a, b) ==
  IF a.type = TSYM /\ b.type = TSYM THEN a.symv = b.symv
  ELSE IF a.type = TINT /\ b.type = TINT THEN a.intv = b.intv
  ELSE IF a.type = TSTR /\ b.type = TSTR THEN a.strv = b.strv
  ELSE FALSE

\* _obj_get, shi.c:576-584: the first cell of bucket h whose key equals k,
\* as its position in the bucket; 0 stands for NULL
RECURSIVE FirstMatch(_, _, _)
FirstMatch(list, k, i) ==
  IF i > Len(list) THEN 0
  ELSE IF obj_key_eq(k, list[i][1]) THEN i
  ELSE FirstMatch(list, k, i + 1)

_obj_get(os, o, h, k) == FirstMatch(os[o].props[h], k, 1)

\* obj_get, shi.c:587-589
obj_get(os, o, k) == _obj_get(os, o, obj_hash(k), k)

\* a found cell: the object that holds it, its bucket and position
NULL == [obj |-> 0, h |-> 0, i |-> 0]
CellAt(o, h, i) == [obj |-> o, h |-> h, i |-> i]
CellVal(os, c) == os[c.obj].props[c.h][c.i][2]

\* obj_find, shi.c:592-601: o is a value; the walk ends at Nil
RECURSIVE obj_find_from(_, _, _, _)
obj_find_from(os, o, h, k) ==
  IF o = Nil THEN NULL
  ELSE LET v == _obj_get(os, o.id, h, k)
       IN IF v # 0 THEN CellAt(o.id, h, v)
          ELSE obj_find_from(os, os[o.id].proto, h, k)

\* a lookup that stops at the receiver's own table
obj_find_own(os, o, k) ==
  IF o = Nil \/ obj_get(os, o.id, k) = 0 THEN NULL
  ELSE CellAt(o.id, obj_hash(k), obj_get(os, o.id, k))

obj_find(os, o, k) == obj_find_from(os, o, obj_hash(k), k)

\* an obj_set that conses a new cell without looking the key up
obj_set_push(os, o, key, val) ==
  [os EXCEPT ![o].props[obj_hash(key)] =
               <<<<key, val>>>> \o os[o].props[obj_hash(key)]]

\* obj_set, shi.c:604-620
obj_set(os, o, key, val) ==
  LET h == obj_hash(key)
      pair == _obj_get(os, o, h, key)
      list == os[o].props[h]
  IN IF pair = 0
     THEN [os EXCEPT ![o].props[h] = <<<<key, val>>>> \o list]
     ELSE [os EXCEPT ![o].props[h][pair] = <<key, val>>]

\* obj_del, shi.c:623-632.  `pair` never leaves the bucket head: each pass
\* drops the head cell when it matches and then, as the loop's step, drops
\* the head cell again.  Stepping from Nil reads Nil->cdr, a null pointer,
\* which the next pass dereferences: "crash".
RECURSIVE obj_del_loop(_, _)
obj_del_loop(list, k) ==
  IF list = <<>> THEN [crash |-> FALSE, list |-> <<>>]
  ELSE LET l1 == IF obj_key_eq(k, list[1][1]) THEN Tail(list) ELSE list
       IN IF l1 = <<>> THEN [crash |-> TRUE, list |-> <<>>]
          ELSE obj_del_loop(Tail(l1), k)

\* yields [crash, os]: whether the loop dereferenced the null pointer, and
\* the heap it leaves
obj_del(os, o, k) ==
  LET h == obj_hash(k)
      r == obj_del_loop(os[o].props[h], k)
  IN [crash |-> r.crash, os |-> [os EXCEPT ![o].props[h] = r.list]]

\* the next free object (alloc of a TOBJ); 0 when the bound is reached
NewObj(os) ==
  IF \A i \in ObjIds : os[i].used THEN 0
  ELSE CHOOSE i \in ObjIds : ~os[i].used /\ \A j \in ObjIds : j < i => os[j].used

\* make_obj, shi.c:504-511
make_obj(os, proto) ==
  [os EXCEPT ![NewObj(os)] =
     [used |-> TRUE, proto |-> proto, props |-> [b \in Buckets |-> <<>>]]]

\* make_obj_alist, shi.c:513-522: props is a list of (key . val) cells
RECURSIVE set_all(_, _, _)
set_all(os, o, props) ==
  IF props = Nil THEN os
  ELSE set_all(obj_set(os, o, props.car.car, props.car.cdr), o, props.cdr)

make_obj_alist(os, proto, props) ==
  set_all(make_obj(os, proto), NewObj(os), props)

ObjInit ==
  /\ objs = [i \in ObjIds |->
               IF i = 1 THEN [NoObj EXCEPT !.used = TRUE] ELSE NoObj]
  /\ envs = <<1>>
  /\ steps = 0

\* operands of the object primitives
SymA == make_symbol("a")
SymB == make_symbol("b")
SymR == make_symbol("r")
StrA == make_str("a")
Keys == {SymA, StrA, make_int(1)}
KeyArgs == Keys \cup {Nil}
UsedRefs(os) == {ObjRef(i) : i \in {j \in ObjIds : os[j].used}}
ObjArgs(os) == UsedRefs(os) \cup {make_int(1)}

list1(a) == cons(a, Nil)
list2(a, b) == cons(a, cons(b, Nil))

\* property lists handed to (obj proto props)
PropLists ==
  { Nil,
    list1(cons(SymA, make_int(1))),
    list2(cons(SymA, make_int(1)), cons(SymA, make_int(2))),
    list1(cons(StrA, make_int(1))) }

\* the check of prim_obj's property list, shi.c:1556-1562: "" when it
\* passes, else the message
RECURSIVE alist_check(_)
alist_check(i) ==
  IF i = Nil THEN ""
  ELSE IF i.type # TCELL \/ i.car.cdr = Nil
       THEN "obj: given non alist as properties"
  ELSE IF i.car.car.type # TSYM THEN "obj: given non symbol as property key"
  ELSE alist_check(i.cdr)

\* a primitive that completes: its result, and the heap after it
Completes(e, result, os) ==
  /\ ev' = [e EXCEPT !.out = result]
  /\ objs' = os
  /\ UNCHANGED <<envs, trapVars_but_ev>>

\* a primitive that calls error(msg)
Raises(e, m) ==
  /\ error(e, "check", m)
  /\ UNCHANGED <<objs, envs>>

\* (obj proto props), shi.c:1538-1570
prim_obj(proto, props) ==
  LET e == [NoEv EXCEPT !.op = "obj", !.o = proto, !.val = props]
  IN /\ proc = "running" /\ steps < MaxOps /\ steps' = steps + 1
     /\ IF proto.type # TOBJ /\ proto # Nil
        THEN Raises(e, "obj: given non object or nil as prototype")
        ELSE IF props.type # TCELL /\ props # Nil
        THEN Raises(e, "obj: given non alist as properties")
        ELSE IF alist_check(props) # ""
        THEN Raises(e, alist_check(props))
        ELSE /\ NewObj(objs) # 0
             /\ Completes(e, ObjRef(NewObj(objs)),
                          make_obj_alist(objs, proto, props))

\* the result of (obj-get o k), shi.c:1572-1591
obj_get_result(os, o, k) ==
  IF o.type # TOBJ THEN Err("obj-get: expected 1st argument to be object")
  ELSE IF k.type # TSYM THEN Err("obj-get: expected 2nd argument to be symbol")
  ELSE LET value == obj_find(os, o, k)
       IN IF value = NULL THEN Err("obj-get: unbound symbol")
          ELSE CellVal(os, value)

\* (obj-get o k)
prim_obj_get(o, k) ==
  LET e == [NoEv EXCEPT !.op = "obj-get", !.o = o, !.k = k]
      r == obj_get_result(objs, o, k)
  IN /\ proc = "running" /\ steps < MaxOps /\ steps' = steps + 1
     /\ IF r.type = "error" THEN Raises(e, r.msg) ELSE Completes(e, r, objs)

\* an obj-set that writes into the cell the chain lookup finds
prim_obj_set_inherited(o, k, v) ==
  LET e == [NoEv EXCEPT !.op = "obj-set", !.o = o, !.k = k, !.val = v]
  IN /\ proc = "running" /\ steps < MaxOps /\ steps' = steps + 1
     /\ IF o.type # TOBJ
        THEN Raises(e, "obj-set: expected 1st argument to be object")
        ELSE IF ~obj_valid_key(k)
        THEN Raises(e, "obj-set: expected 2nd argument to be valid object key")
        ELSE IF obj_find(objs, o, k) = NULL
        THEN Completes(e, o, obj_set(objs, o.id, k, v))
        ELSE Completes(e, o, obj_set(objs, obj_find(objs, o, k).obj, k, v))

\* (obj-set o k v), shi.c:1593-1609
prim_obj_set(o, k, v) ==
  LET e == [NoEv EXCEPT !.op = "obj-set", !.o = o, !.k = k, !.val = v]
  IN /\ proc = "running" /\ steps < MaxOps /\ steps' = steps + 1
     /\ IF o.type # TOBJ
        THEN Raises(e, "obj-set: expected 1st argument to be object")
        ELSE IF ~obj_valid_key(k)
        THEN Raises(e, "obj-set: expected 2nd argument to be valid object key")
        ELSE Completes(e, o, obj_set(objs, o.id, k, v))

\* (obj-del o k), shi.c:1611-1625, with obj_del's call of obj_hash, which
\* rejects a key that is no Symbol, String or Integer (shi.c:529-540)
prim_obj_del(o, k) ==
  LET e == [NoEv EXCEPT !.op = "obj-del", !.o = o, !.k = k]
  IN /\ proc = "running" /\ steps < MaxOps /\ steps' = steps + 1
     /\ IF o.type # TOBJ
        THEN Raises(e, "obj-del: expected 1st argument to be object")
        ELSE IF obj_valid_key(k)
        THEN Raises(e, "obj-del: expected 2nd argument to be valid object key")
        ELSE IF ~hashable(k)
        THEN Raises(e, "obj_hash: key given is not sym, str, or int")
        ELSE IF obj_del(objs, o.id, k).crash
        THEN /\ proc' = "undefined: crash"
             /\ ev' = e
             /\ UNCHANGED <<objs, envs, error_depth, error_value,
                            error_jmp_env, traps>>
        ELSE Completes(e, o, obj_del(objs, o.id, k).os)

(***************************************************************************)
(* ENVIRONMENTS AND THE EVALUATOR  (shi.c:1034-1318)                       *)
(*                                                                         *)
(* A machine state m = [objs, envs] is threaded through the evaluation of  *)
(* an expression; the last element of envs is the callee's `*env`.         *)
(* An evaluation yields [m, val, err]: err is "" or the message handed to  *)
(* error().                                                                *)
(***************************************************************************)
Top(m) == m.envs[Len(m.envs)]
SetTop(m, e) == [m EXCEPT !.envs[Len(m.envs)] = e]
Ok(m, v) == [m |-> m, val |-> v, err |-> ""]
Fail(m, msg) == [m |-> m, val |-> Nil, err |-> msg]

\* a special form (op sym e) whose head names the primitive op
Form(op, sym, e) == [type |-> "form", op |-> op, sym |-> sym, e |-> e]

\* env_set, shi.c:1039-1041
env_set(os, env, sym, val) == obj_set(os, env, sym, val)

\* a lookup that starts at the enclosing environment
env_get_enclosing(os, env, sym) == obj_find(os, os[env].proto, sym)

\* env_get, shi.c:1044-1046
env_get(os, env, sym) == obj_find(os, ObjRef(env), sym)

\* the environment whose proto is Nil, shi.c:1275-1277
RECURSIVE topmost(_, _)
topmost(os, env) ==
  IF os[env].proto = Nil THEN env ELSE topmost(os, os[env].proto.id)

\* a cell found before an evaluation, located again after it: the bucket
\* only grows at its head, so the cell keeps its distance from the end
Relocate(os0, os1, c) ==
  [c EXCEPT !.i = Len(os1[c.obj].props[c.h])
                    - (Len(os0[c.obj].props[c.h]) - c.i)]

\* make_function, shi.c:642-650
make_function(env, type, params, body) ==
  [type |-> type, params |-> params, body |-> body, env |-> ObjRef(env)]

\* the formals are symbols, with an optional symbol tail, shi.c:1235-1241
RECURSIVE params_valid(_)
params_valid(p) ==
  IF p.type = TCELL THEN p.car.type = TSYM /\ params_valid(p.cdr)
  ELSE p = Nil \/ p.type = TSYM

\* handle_function, shi.c:1221-1244: (fn params body...) and
\* (macro params body...), written Form(op, params, body)
handle_function(m, params, body, type) ==
  IF ~(params = Nil \/ params.type \in {TCELL, TSYM}) \/ body.type # TCELL
  THEN Fail(m, "Malformed fn or macro")
  ELSE IF ~params_valid(params)
  THEN Fail(m, "fn|macro: arg list must contain only symbols")
  ELSE Ok(m, make_function(Top(m), type, params, body))

\* eval, shi.c:1145-1195, of a self-evaluating value, a Symbol, or a
\* (def ...), (def-global ...), (set ...), (fn ...), (macro ...) form, or
\* of (quote e), written Form("quote", Nil, e) (prim_quote, shi.c:1505-1511); with prim_def (shi.c:1257-1266),
\* prim_def_global (shi.c:1268-1280) and prim_set on a bare symbol
\* (shi.c:1283-1318)
RECURSIVE eval(_, _)
prim_def(m, sym, e) ==
  LET r == eval(m, e)
  IN IF r.err # "" THEN r
     ELSE Ok([r.m EXCEPT !.objs = env_set(r.m.objs, Top(r.m), sym, r.val)],
             r.val)

prim_def_global(m, sym, e) ==
  LET r == eval(m, e)
  IN IF r.err # "" THEN r
     ELSE LET g == topmost(r.m.objs, Top(r.m))
              m1 == SetTop(r.m, g)
          IN Ok([m1 EXCEPT !.objs = env_set(m1.objs, g, sym, r.val)], r.val)

\* a set that binds the value in the current environment's own table
prim_set_local(m, sym, e) ==
  LET key == env_get(m.objs, Top(m), sym)
  IN IF key = NULL THEN Fail(m, "Unbound variable")
     ELSE LET r == eval(m, e)
          IN IF r.err # "" THEN r
             ELSE Ok([r.m EXCEPT !.objs = env_set(r.m.objs, Top(m), sym, r.val)],
                     r.val)

prim_set(m, sym, e) ==
  LET key == env_get(m.objs, Top(m), sym)
  IN IF key = NULL THEN Fail(m, "Unbound variable")
     ELSE LET r == eval(m, e)
          IN IF r.err # "" THEN r
             ELSE LET c == Relocate(m.objs, r.m.objs, key)
                  IN Ok([r.m EXCEPT !.objs[c.obj].props[c.h][c.i][2] = r.val],
                        r.val)

eval(m, obj) ==
  IF obj.type \in {TINT, TSTR, TOBJ, TPRI, TFUN, TMAC, TTRUE, TNIL}
  THEN Ok(m, obj)
  ELSE IF obj.type = TSYM
  THEN LET bind == env_get(m.objs, Top(m), obj)
       IN IF bind = NULL THEN Fail(m, "eval: undefined symbol: " \o obj.symv)
          ELSE Ok(m, CellVal(m.objs, bind))
  ELSE IF obj.op = "def" THEN prim_def(m, obj.sym, obj.e)
  ELSE IF obj.op = "def-global" THEN prim_def_global(m, obj.sym, obj.e)
  ELSE IF obj.op = "fn" THEN handle_function(m, obj.sym, obj.e, TFUN)
  ELSE IF obj.op = "macro" THEN handle_function(m, obj.sym, obj.e, TMAC)
  ELSE IF obj.op = "quote" THEN Ok(m, obj.e)
  ELSE prim_set(m, obj.sym, obj.e)

\* acons, shi.c:492-496
acons(x, y, a) == cons(cons(x, y), a)

\* push_env, shi.c:1049-1068: the bindings are collected in `map`, last
\* formal first; a values list that runs out is an error; the frame is
\* then built by make_obj_alist.  Yields [err, map].
RECURSIVE bind_params(_, _, _)
bind_params(vars, vals, map) ==
  IF vars.type = TCELL
  THEN IF vals.type # TCELL
       THEN [err |-> "Cannot apply function: number of argument does not match",
             map |-> map]
       ELSE bind_params(vars.cdr, vals.cdr, acons(vars.car, vals.car, map))
  ELSE IF vars # Nil THEN [err |-> "", map |-> acons(vars, vals, map)]
  ELSE [err |-> "", map |-> map]

\* a binding loop that stops, without an error, where the values run out
RECURSIVE bind_supplied(_, _, _)
bind_supplied(vars, vals, map) ==
  IF vars.type = TCELL /\ vals.type = TCELL
  THEN bind_supplied(vars.cdr, vals.cdr, acons(vars.car, vals.car, map))
  ELSE [err |-> "", map |-> map]

push_env_map_partial(vars, vals) == bind_supplied(vars, vals, Nil)

push_env_map(vars, vals) ==
  IF vars.type = TSYM
  THEN [err |-> "", map |-> acons(vars, vals, Nil)]
  ELSE bind_params(vars, vals, Nil)

push_env(os, env, vars, vals) ==
  make_obj_alist(os, ObjRef(env), push_env_map(vars, vals).map)

\* the expressions evaluated in SpecEnv
Syms == {SymA, SymB}
Nested == {Form(op, sym, make_int(1)) : op \in {"def", "def-global"}, sym \in Syms}
Exprs == {make_int(1), make_int(2)} \cup Nested
ParamLists == {list1(SymA), list2(SymA, SymB), SymA, cons(SymA, SymB)}
ArgLists == {Nil, list1(make_int(1)), list2(make_int(1), make_int(2))}

\* one top-level form evaluated in the current frame: eval of
\* (def sym e), (def-global sym e), (set sym e) or of a symbol
eval_form(f) ==
  LET m == [objs |-> objs, envs |-> envs]
      r == eval(m, f)
      e == [NoEv EXCEPT !.op = IF f.type = TSYM THEN "symbol" ELSE f.op,
                        !.o = ObjRef(Top(m)),
                        !.k = IF f.type = TSYM THEN f ELSE f.sym,
                        !.val = IF f.type = TSYM THEN Nil ELSE f.e]
  IN /\ proc = "running" /\ steps < MaxOps /\ steps' = steps + 1
     /\ IF r.err # ""
        THEN /\ error(e, "check", r.err)
             /\ objs' = r.m.objs /\ envs' = r.m.envs
        ELSE /\ ev' = [e EXCEPT !.out = r.val]
             /\ objs' = r.m.objs /\ envs' = r.m.envs
             /\ UNCHANGED trapVars_but_ev

\* apply_func, shi.c:1096-1104, up to the evaluation of the body: the
\* closure's params and captured env, and the evaluated arguments
apply_func(fnenv, params, args) ==
  LET e == [NoEv EXCEPT !.op = "apply", !.o = ObjRef(fnenv), !.k = params,
                        !.val = args]
      b == push_env_map(params, args)
  IN /\ proc = "running" /\ steps < MaxOps /\ steps' = steps + 1
     /\ IF b.err # ""
        THEN Raises(e, b.err)
        ELSE /\ NewObj(objs) # 0
             /\ objs' = push_env(objs, fnenv, params, args)
             /\ envs' = Append(envs, NewObj(objs))
             /\ ev' = [e EXCEPT !.out = ObjRef(NewObj(objs))]
             /\ UNCHANGED trapVars_but_ev

\* progn returns the body's last value to apply_func's caller
\* (shi.c:1103): the callee's frame and its env handle are gone
fn_return ==
  /\ proc = "running" /\ steps < MaxOps /\ steps' = steps + 1
  /\ Len(envs) > 1
  /\ envs' = SubSeq(envs, 1, Len(envs) - 1)
  /\ ev' = [NoEv EXCEPT !.op = "return", !.o = ObjRef(envs[Len(envs)])]
  /\ UNCHANGED <<objs, trapVars_but_ev>>

\* K applied to the outcome x of a step
Then(x, K(_)) == K(x)

(***************************************************************************)
(* THE PROTOTYPE LINK AS A WRITABLE FIELD  (shi.c:592-601, 1275-1277,      *)
(* 1627-1646)                                                              *)
(*                                                                         *)
(* obj-proto-set! stores its second argument in the proto field, whatever  *)
(* it is.  The walks of obj_find and def-global follow proto until they    *)
(* meet Nil; here they are computed on chains that need not reach it.  A   *)
(* walk through more than MaxObj objects has entered a cycle and never     *)
(* returns ("hang"); a walk that steps onto a value that is neither Nil    *)
(* nor an Object reads `proto` and `props` of a value that has none        *)
(* ("undefined").                                                          *)
(***************************************************************************)
\* (obj-proto o), shi.c:1627-1635
prim_obj_proto(o) ==
  LET e == [NoEv EXCEPT !.op = "obj-proto", !.o = o]
  IN /\ proc = "running" /\ steps < MaxOps /\ steps' = steps + 1
     /\ IF o.type # TOBJ
        THEN Raises(e, "obj-proto: expected 1st argument to be object")
        ELSE Completes(e, objs[o.id].proto, objs)

\* (obj-proto-set! o p), shi.c:1637-1646
prim_obj_proto_set(o, p) ==
  LET e == [NoEv EXCEPT !.op = "obj-proto-set!", !.o = o, !.val = p]
  IN /\ proc = "running" /\ steps < MaxOps /\ steps' = steps + 1
     /\ IF o.type # TOBJ
        THEN Raises(e, "obj-proto-set!: expected 1st argument to be object")
        ELSE Completes(e, o, [objs EXCEPT ![o.id].proto = p])

\* the loop of obj_find, shi.c:594-599, with `fuel` passes left.  Yields
\* [kind, cell]: "found" with the cell, "null", "hang" or "undefined".
RECURSIVE obj_find_loop(_, _, _, _, _)
obj_find_loop(os, o, h, k, fuel) ==
  IF o = Nil THEN [kind |-> "null", cell |-> NULL]
  ELSE IF o.type # TOBJ THEN [kind |-> "undefined", cell |-> NULL]
  ELSE IF fuel = 0 THEN [kind |-> "hang", cell |-> NULL]
  ELSE IF _obj_get(os, o.id, h, k) # 0
  THEN [kind |-> "found", cell |-> CellAt(o.id, h, _obj_get(os, o.id, h, k))]
  ELSE obj_find_loop(os, os[o.id].proto, h, k, fuel - 1)

\* (obj-get o k), shi.c:1572-1591, on a chain that need not end
obj_get_walk(o, k) ==
  LET e == [NoEv EXCEPT !.op = "obj-get", !.o = o, !.k = k]
  IN /\ proc = "running" /\ steps < MaxOps /\ steps' = steps + 1
     /\ IF o.type # TOBJ
        THEN Raises(e, "obj-get: expected 1st argument to be object")
        ELSE IF k.type # TSYM
        THEN Raises(e, "obj-get: expected 2nd argument to be symbol")
        ELSE Then(obj_find_loop(objs, o, obj_hash(k), k, MaxObj),
               LAMBDA f :
                 IF f.kind = "null" THEN Raises(e, "obj-get: unbound symbol")
                 ELSE IF f.kind = "found"
                 THEN Completes(e, CellVal(objs, f.cell), objs)
                 ELSE /\ proc' = f.kind
                      /\ ev' = e
                      /\ UNCHANGED <<objs, envs, error_depth, error_value,
                                     error_jmp_env, traps>>)

\* the loop of prim_def_global, shi.c:1275-1277, with `fuel` passes left.
\* Yields [kind, env]: "top" with the environment reached, "hang" or
\* "undefined".
RECURSIVE topmost_loop(_, _, _)
topmost_loop(os, env, fuel) ==
  IF os[env].proto = Nil THEN [kind |-> "top", env |-> env]
  ELSE IF os[env].proto.type # TOBJ THEN [kind |-> "undefined", env |-> env]
  ELSE IF fuel = 0 THEN [kind |-> "hang", env |-> env]
  ELSE topmost_loop(os, os[env].proto.id, fuel - 1)

\* (def-global sym v) of an evaluated v, shi.c:1268-1280, on a chain that
\* need not end
def_global_walk(sym, v) ==
  LET e == [NoEv EXCEPT !.op = "def-global", !.o = ObjRef(envs[Len(envs)]),
                        !.k = sym, !.val = v]
  IN /\ proc = "running" /\ steps < MaxOps /\ steps' = steps + 1
     /\ Then(topmost_loop(objs, envs[Len(envs)], MaxObj),
          LAMBDA t :
            IF t.kind = "top"
            THEN /\ objs' = env_set(objs, t.env, sym, v)
                 /\ envs' = [envs EXCEPT ![Len(envs)] = t.env]
                 /\ ev' = [e EXCEPT !.out = v]
                 /\ UNCHANGED trapVars_but_ev
            ELSE /\ proc' = t.kind
                 /\ ev' = e
                 /\ UNCHANGED <<objs, envs, error_depth, error_value,
                                error_jmp_env, traps>>)

(***************************************************************************)
(* APPLICATION FORMS: CLOSURES AND MACROS  (shi.c:1071-1142, 1177-1190)    *)
(***************************************************************************)
\* progn, shi.c:1071-1079: the expressions of list, in order; the value
\* of the last
RECURSIVE progn_from(_, _, _)
progn_from(m, lp, r) ==
  IF lp = Nil THEN Ok(m, r)
  ELSE Then(eval(m, lp.car),
            LAMBDA x : IF x.err # "" THEN x
                       ELSE progn_from(x.m, lp.cdr, x.val))

progn(m, list) == progn_from(m, list, Nil)

\* eval_list, shi.c:1083-1092: the values of the elements, in order
RECURSIVE eval_list(_, _)
eval_list(m, lp) ==
  IF lp = Nil THEN Ok(m, Nil)
  ELSE Then(eval(m, lp.car),
            LAMBDA x :
              IF x.err # "" THEN x
              ELSE Then(eval_list(x.m, lp.cdr),
                        LAMBDA rest : IF rest.err # "" THEN rest
                                      ELSE Ok(rest.m, cons(x.val, rest.val))))

\* apply_func, shi.c:1096-1104, to its return: the frame is pushed on the
\* function's captured env, the body runs with `newenv` as its handle, and
\* the handle is gone when the call returns
apply_func_value(m, fn, args) ==
  Then(push_env_map(fn.params, args),
       LAMBDA b :
         IF b.err # "" THEN Fail(m, b.err)
         ELSE Then(progn([objs |-> make_obj_alist(m.objs, fn.env, b.map),
                          envs |-> Append(m.envs, NewObj(m.objs))], fn.body),
                   LAMBDA r :
                     [r EXCEPT !.m.envs = SubSeq(r.m.envs, 1, Len(m.envs))]))

\* the outcome of macroexpand: same tells whether it returned *val itself
Expansion(r, same) == [m |-> r.m, val |-> r.val, err |-> r.err, same |-> same]

\* the macro a form's head denotes: the head itself, or the value the
\* head symbol is bound to (Nil when unbound), shi.c:1132-1139
macro_of(m, head) ==
  IF head.type = TMAC THEN head
  ELSE Then(env_get(m.objs, Top(m), head),
            LAMBDA bind : IF bind = NULL THEN Nil ELSE CellVal(m.objs, bind))

\* a macroexpand that evaluates the argument forms before binding them
macroexpand_eager(m, val) ==
  IF val.type # TCELL \/ val.car.type \notin {TSYM, TMAC}
  THEN Expansion(Ok(m, val), TRUE)
  ELSE IF macro_of(m, val.car).type # TMAC THEN Expansion(Ok(m, val), TRUE)
  ELSE Then(eval_list(m, val.cdr),
            LAMBDA ea :
              IF ea.err # "" THEN Expansion(ea, FALSE)
              ELSE Expansion(apply_func_value(ea.m, macro_of(m, val.car),
                                              ea.val), FALSE))

\* macroexpand, shi.c:1126-1142
macroexpand(m, val) ==
  IF val.type # TCELL \/ val.car.type \notin {TSYM, TMAC}
  THEN Expansion(Ok(m, val), TRUE)
  ELSE IF macro_of(m, val.car).type # TMAC THEN Expansion(Ok(m, val), TRUE)
  ELSE Expansion(apply_func_value(m, macro_of(m, val.car), val.cdr), FALSE)

\* apply, shi.c:1107-1123, of the evaluated head fn with do_eval
apply(fn, args) ==
  IF fn.err # "" THEN fn
  ELSE IF fn.val.type # TFUN
  THEN Fail(fn.m, "The head of a list must be a function")
  ELSE Then(eval_list(fn.m, args),
            LAMBDA ea : IF ea.err # "" THEN ea
                        ELSE apply_func_value(ea.m, fn.val, ea.val))

\* eval of a Cell, shi.c:1177-1190: the expansion, when there is one, is
\* evaluated in the caller's env; else the head is evaluated and applied
\* to the evaluated arguments
eval_cell(m, obj) ==
  Then(macroexpand(m, obj),
       LAMBDA x : IF x.err # "" THEN Fail(x.m, x.err)
                  ELSE IF ~x.same THEN eval(x.m, x.val)
                  ELSE apply(eval(m, obj.car), obj.cdr))

\* the functions, heads and argument lists of the applications evaluated
ArgForm == Form("def", SymA, make_int(1))
Bodies == {list1(SymR), list1(make_int(2))}
Functions == {Form(op, list1(SymR), b) : op \in {"fn", "macro"}, b \in Bodies}
Heads == {SymB} \cup {make_function(1, TMAC, list1(SymR), b) : b \in Bodies}
CallArgs == {Nil, list1(ArgForm), list1(make_int(2))}

\* one application form (head . args) evaluated in the current frame
eval_application(obj) ==
  /\ proc = "running" /\ steps < MaxOps /\ steps' = steps + 1
  /\ NewObj(objs) # 0
  /\ \E r \in {eval_cell([objs |-> objs, envs |-> envs], obj)},
        e \in {[NoEv EXCEPT !.op = "call", !.o = ObjRef(envs[Len(envs)]),
                            !.k = obj.car, !.val = obj.cdr]} :
       /\ objs' = r.m.objs /\ envs' = r.m.envs
       /\ IF r.err # ""
          THEN error(e, "check", r.err)
          ELSE /\ ev' = [e EXCEPT !.out = r.val]
               /\ UNCHANGED trapVars_but_ev

(***************************************************************************)
(* THE APPLY PRIMITIVE  (shi.c:1106-1123, 1419-1433)                       *)
(*                                                                         *)
(* A Primitive is [type |-> TPRI, name]: its C function receives the       *)
(* argument list of the call as it stands and evaluates it itself.         *)
(***************************************************************************)
make_primitive(name) == [type |-> TPRI, name |-> name]

\* length, shi.c:472-477: -1 for a list that does not end in Nil
RECURSIVE length(_)
length(list) ==
  IF list.type # TCELL THEN (IF list = Nil THEN 0 ELSE -1)
  ELSE IF length(list.cdr) = -1 THEN -1 ELSE 1 + length(list.cdr)

\* prim_cons, shi.c:1673-1679
prim_cons(m, list) ==
  IF length(list) # 2 THEN Fail(m, "Malformed cons")
  ELSE Then(eval_list(m, list),
            LAMBDA ea : IF ea.err # "" THEN ea
                        ELSE Ok(ea.m, cons(ea.val.car, ea.val.cdr.car)))

\* prim_plus, shi.c:1750-1758
RECURSIVE plus_from(_, _, _)
plus_from(m, args, sum) ==
  IF args = Nil THEN Ok(m, make_int(sum))
  ELSE IF args.car.type # TINT THEN Fail(m, "+ takes only numbers")
  ELSE plus_from(m, args.cdr, sum + args.car.intv)

prim_plus(m, list) ==
  Then(eval_list(m, list),
       LAMBDA ea : IF ea.err # "" THEN ea ELSE plus_from(ea.m, ea.val, 0))

\* the call (*fn)->priv(root, env, args), shi.c:1111
priv(fn, m, list) ==
  IF fn.name = "cons" THEN prim_cons(m, list) ELSE prim_plus(m, list)

\* apply, shi.c:1107-1123, with do_eval false
apply_noeval(m, fn, args) ==
  IF ~(args = Nil \/ args.type = TCELL)
  THEN Fail(m, "apply: argument must be a list")
  ELSE IF fn.type = TPRI THEN priv(fn, m, args)
  ELSE IF fn.type = TFUN THEN apply_func_value(m, fn, args)
  ELSE Fail(m, "apply: not supported")

\* prim_apply, shi.c:1420-1433, of the two argument expressions
prim_apply(m, fexpr, aexpr) ==
  Then(eval(m, fexpr),
       LAMBDA fn :
         IF fn.err # "" THEN fn
         ELSE Then(eval(fn.m, aexpr),
                   LAMBDA args :
                     IF args.err # "" THEN args
                     ELSE IF args.val.type # TCELL /\ args.val # Nil
                     THEN Fail(args.m, "apply: 2nd argument is not a list")
                     ELSE apply_noeval(args.m, fn.val, args.val)))

\* the functions applied and the lists they are applied to: elements are
\* an Integer, a Symbol and a (def a 1) form, as data
Identity == make_function(1, TFUN, list1(SymR), list1(SymR))
ApplyHeads ==
  {make_primitive("cons"), make_primitive("+"), Identity, make_int(1)}
ApplyElems == {make_int(2), SymA, ArgForm}
ApplyLists ==
  {Nil} \cup {list1(x) : x \in ApplyElems}
        \cup {list2(x, y) : x \in ApplyElems, y \in {make_int(2)}}

\* one form (apply f (quote list)) evaluated in the current frame
apply_form(f, list) ==
  /\ proc = "running" /\ steps < MaxOps /\ steps' = steps + 1
  /\ NewObj(objs) # 0
  /\ \E r \in {prim_apply([objs |-> objs, envs |-> envs], f,
                           Form("quote", Nil, list))},
        e \in {[NoEv EXCEPT !.op = "prim_apply", !.o = ObjRef(envs[Len(envs)]),
                            !.k = f, !.val = list]} :
       /\ objs' = r.m.objs /\ envs' = r.m.envs
       /\ IF r.err # ""
          THEN error(e, "check", r.err)
          ELSE /\ ev' = [e EXCEPT !.out = r.val]
               /\ UNCHANGED trapVars_but_ev

(***************************************************************************)
(* HEAP, ALLOCATOR AND COLLECTOR  (shi.c:160-437)                          *)
(*                                                                         *)
(* memory is the to-space: the sequence of the objects bump-allocated in   *)
(* it; a heap address is a position in that sequence.  A collection moves  *)
(* the live objects into a fresh to-space and unmaps the old one, so an    *)
(* address that no root slot held is afterwards Dangling.                  *)
(***************************************************************************)
\* capacity of a semispace in bytes (MEMORY_SIZE, scaled down)
MemBytes == 640
\* (key . value) cells of the property list handed to make_obj_alist
MaxPairs == 2
\* unreachable Integers in the heap when the run starts
MaxGarbage == 8

\* sizeof(void *), sizeof(int) and offsetof(Val, intv) on LP64
PtrSize == 8
IntSize == 4
HeaderSize == 8

VARIABLES
  always_gc,   \* static bool always_gc (SHI_ALWAYS_GC)
  gc_running,  \* static bool gc_running
  memory,      \* the objects of the to-space, in address order
  mem_nused,   \* static size_t mem_nused
  symbols,     \* static Val *symbols
  roots,       \* the slots of the root frames on the C stack
  pair,        \* make_obj_alist's `Val *pair`: a C local, no root slot
  pc,          \* position of the interpreter in make_obj_alist
  run,         \* 0: not started; 1: the run without SHI_ALWAYS_GC;
               \* 2: the run of the same program with SHI_ALWAYS_GC
  input,       \* the program's input: [alist, garbage]
  result,      \* how the current run ended ([kind |-> "none"] while running)
  result1      \* how run 1 ended

gcVars == <<always_gc, gc_running, memory, mem_nused, symbols, roots, pair,
            pc, run, input, result, result1>>

Ptr(i) == [type |-> "ptr", addr |-> i]
Dangling == Ptr(0)
NullPtr == [type |-> "null"]
IsHeap(p) == p.type = "ptr"

NoResult == [kind |-> "none"]
Value(v) == [kind |-> "value", v |-> v]
Undefined == {[kind |-> "undefined: crash"], [kind |-> "undefined: stale read"]}
Exit1(m) == [kind |-> "exit 1: unhandled error", msg |-> m]

\* roundup, shi.c:257-259
roundup(var, size) == ((var + size - 1) \div size) * size

\* the size alloc gives an object of `size` payload bytes, shi.c:265-273
alloc_size(size) == roundup(roundup(size, PtrSize) + HeaderSize, PtrSize)

\* the size field of a heap object (one-byte names, as in KeyUniverse)
size_of(o) ==
  CASE o.type = TINT  -> alloc_size(IntSize)
    [] o.type = TSYM  -> alloc_size(2)
    [] o.type = TSTR  -> alloc_size(2)
    [] o.type = TCELL -> alloc_size(PtrSize * 2)
    [] o.type = TOBJ  -> alloc_size(PtrSize * (OBJ_HM_SIZE + 1))
    [] o.type \in {TFUN, TMAC} -> alloc_size(PtrSize * 3)

RECURSIVE bytes_of(_)
bytes_of(mem) ==
  IF mem = <<>> THEN 0 ELSE size_of(Head(mem)) + bytes_of(Tail(mem))

\* the root slots, in the order forward_root_objects meets them: obj_set's
\* frame (list, pairh), make_obj_alist's (obj, key, val), its caller's
\* (proto, props)
RootSlots == <<"list", "pairh", "obj", "key", "val", "proto", "props">>

(***************************************************************************)
(* gc, shi.c:319-437.  g = [from, to, fwd]: the from-space, the to-space   *)
(* built so far (scan2 is its end), and the tombstones: fwd[i] is the new  *)
(* address of from-space object i, 0 while it has not moved.               *)
(***************************************************************************)
\* forward applied to the pointers ps one after the other: the objects
\* moved are those met for the first time, in the order they are met
forward_seq(g, ps) ==
  LET moves(i) == /\ IsHeap(ps[i]) /\ ps[i] # Dangling
                  /\ g.fwd[ps[i].addr] = 0
                  /\ \A j \in 1..(i - 1) : ps[j] # ps[i]
      moved == {i \in 1..Len(ps) : moves(i)}
      rank(i) == Cardinality({j \in moved : j <= i})
      ith(k) == CHOOSE i \in moved : rank(i) = k
      fwd1 == [a \in DOMAIN g.fwd |->
                 IF \E i \in moved : ps[i].addr = a
                 THEN Len(g.to) + rank(CHOOSE i \in moved : ps[i].addr = a)
                 ELSE g.fwd[a]]
  IN [g |-> [g EXCEPT !.to = g.to \o [k \in 1..Cardinality(moved) |->
                                        g.from[ps[ith(k)].addr]],
                      !.fwd = fwd1],
      ps |-> [i \in 1..Len(ps) |->
                IF IsHeap(ps[i]) /\ ps[i] # Dangling
                THEN Ptr(fwd1[ps[i].addr]) ELSE ps[i]]]

\* forward, shi.c:319-342: the new address of the object at p, moved now
\* unless a tombstone is found there
forward(g, p) ==
  LET f == forward_seq(g, <<p>>) IN [g |-> f.g, p |-> f.ps[1]]

\* the root slots and the symbol list updated from their forwarded pointers
rooted(f, rs) ==
  [g |-> f.g, symbols |-> f.ps[1],
   roots |-> [n \in DOMAIN rs |->
                f.ps[1 + CHOOSE i \in 1..Len(RootSlots) : RootSlots[i] = n]]]

\* forward_root_objects, shi.c:353-372: the symbol list, then every
\* non-null slot of every frame (no watcher is registered in this model)
forward_root_objects(g, sym, rs) ==
  rooted(forward_seq(g, <<sym>> \o [i \in 1..Len(RootSlots) |->
                                      rs[RootSlots[i]]]),
         rs)

\* the pointer fields of a heap object, in the order the scan loop
\* forwards them (shi.c:405-414)
fields_of(o) ==
  IF o.type = TOBJ
  THEN <<o.proto>> \o [i \in 1..OBJ_HM_SIZE |-> o.props[i - 1]]
  ELSE IF o.type = TCELL THEN <<o.car, o.cdr>>
  ELSE IF o.type \in {TFUN, TMAC} THEN <<o.params, o.body, o.env>>
  ELSE <<>>

with_fields(o, ps) ==
  IF o.type = TOBJ
  THEN [o EXCEPT !.proto = ps[1],
                 !.props = [b \in Buckets |-> ps[b + 2]]]
  ELSE IF o.type = TCELL THEN [o EXCEPT !.car = ps[1], !.cdr = ps[2]]
  ELSE IF o.type \in {TFUN, TMAC}
    THEN [o EXCEPT !.params = ps[1], !.body = ps[2], !.env = ps[3]]
  ELSE o

\* one turn of the scan loop: the fields of the object at scan1 forwarded
scan_one(s, f) == [f.g EXCEPT !.to[s] = with_fields(f.g.to[s], f.ps)]

\* the scan-and-copy loop, shi.c:396-426
RECURSIVE scan(_, _)
scan(g, s) ==
  IF s > Len(g.to) THEN g
  ELSE scan(scan_one(s, forward_seq(g, fields_of(g.to[s]))), s + 1)

\* a gc that leaves the byte counter as it found it
gc_finish_stale_count(h, r) ==
  [h EXCEPT !.memory = r.g.to,
            !.symbols = r.symbols,
            !.roots = r.roots,
            !.pair = IF IsHeap(h.pair) THEN Dangling ELSE h.pair]

\* the end of gc, shi.c:428-436, r the roots and to-space after the scan
gc_finish(h, r) ==
  [h EXCEPT !.memory = r.g.to,
            !.mem_nused = bytes_of(r.g.to),
            !.symbols = r.symbols,
            !.roots = r.roots,
            \* munmap(from_space): an address kept outside the root slots
            \* no longer denotes an object
            !.pair = IF IsHeap(h.pair) THEN Dangling ELSE h.pair]

gc_scan(r) == [r EXCEPT !.g = scan(r.g, 1)]

\* gc(root), shi.c:376-437, on the interpreter state
\* h = [always_gc, gc_running, memory, mem_nused, symbols, roots, pair]
gc(h) ==
  gc_finish(h, gc_scan(forward_root_objects(
                         [from |-> h.memory, to |-> <<>>,
                          fwd |-> [i \in 1..Len(h.memory) |-> 0]],
                         h.symbols, h.roots)))

\* the collections alloc starts, shi.c:281-286
alloc_gc(h, size) ==
  IF \/ h.always_gc /\ ~h.gc_running
     \/ ~h.always_gc /\ MemBytes < h.mem_nused + size
  THEN gc(h) ELSE h

\* the end of alloc, shi.c:291-299
alloc_obj(h, o) ==
  IF MemBytes < h.mem_nused + size_of(o)
  THEN [h |-> h, err |-> MemoryMsg]
  ELSE [h |-> [h EXCEPT !.memory = Append(h.memory, o),
                        !.mem_nused = h.mem_nused + size_of(o)],
        err |-> ""]

\* alloc, shi.c:262-300, for a new object o: the state after it, with the
\* new object last in memory; err is "Memory exhausted" when the request
\* cannot be met
alloc(h, o) == alloc_obj(alloc_gc(h, size_of(o)), o)

\* the address alloc returned
Newest(h) == Ptr(Len(h.memory))

\* the key a heap object stands for
KeyAt(h, p) ==
  LET o == h.memory[p.addr]
  IN CASE o.type = TSYM -> make_symbol(o.symv)
       [] o.type = TSTR -> make_str(o.strv)
       [] o.type = TINT -> make_int(o.intv)

\* obj_key_eq on addresses, shi.c:562-572: symbols by identity
key_eq_at(h, a, b) ==
  LET x == h.memory[a.addr]
      y == h.memory[b.addr]
  IN IF x.type = TSYM /\ y.type = TSYM THEN a = b
     ELSE IF x.type = TINT /\ y.type = TINT THEN x.intv = y.intv
     ELSE IF x.type = TSTR /\ y.type = TSTR THEN x.strv = y.strv
     ELSE FALSE

\* _obj_get on addresses, shi.c:576-584: the (key . value) cell or NULL
RECURSIVE get_at(_, _, _)
get_at(h, list, k) ==
  IF list = Nil THEN NullPtr
  ELSE LET c == h.memory[list.addr]
       IN IF key_eq_at(h, k, h.memory[c.car.addr].car) THEN c.car
          ELSE get_at(h, c.cdr, k)

\* the new cell filled from the handles, which are read after alloc returned
cons_fill(a, car, cdr, into) ==
  IF a.err # "" THEN a
  ELSE [h |-> [a.h EXCEPT !.memory[Len(a.h.memory)].car = a.h.roots[car],
                          !.memory[Len(a.h.memory)].cdr = a.h.roots[cdr],
                          !.roots[into] = Ptr(Len(a.h.memory))],
        err |-> ""]

\* cons(root, car, cdr), shi.c:464-469, its result stored in root slot `into`
cons_at(h, car, cdr, into) ==
  cons_fill(alloc(h, [type |-> TCELL, car |-> Nil, cdr |-> Nil]),
            car, cdr, into)

\* *pair = cons(root, pair, list), shi.c:614
obj_set_cons2(c) ==
  IF c.err # "" THEN c ELSE cons_at(c.h, "pairh", "list", "pairh")

\* (*obj)->props[h] = *pair, shi.c:615
obj_set_link(c, hsh) ==
  IF c.err # "" THEN c
  ELSE [h |-> [c.h EXCEPT !.memory[c.h.roots.obj.addr].props[hsh] =
                             c.h.roots.pairh],
        err |-> ""]

\* obj_set after *pair and *list are assigned, shi.c:611-619
obj_set_body(h, hsh) ==
  IF h.roots.pairh = NullPtr
  THEN obj_set_link(obj_set_cons2(cons_at(h, "key", "val", "pairh")), hsh)
  ELSE [h |-> [h EXCEPT !.memory[h.roots.pairh.addr].cdr = h.roots.val],
        err |-> ""]

\* obj_set(root, obj, key, val), shi.c:604-620
obj_set_at(h) ==
  LET hsh == obj_hash(KeyAt(h, h.roots.key))
      lst == h.memory[h.roots.obj.addr].props[hsh]
  IN obj_set_body([h EXCEPT !.roots.pairh = get_at(h, lst, h.roots.key),
                            !.roots.list = lst],
                  hsh)

\* obj_set's frame is popped when it returns
pop_obj_set(h) == [h EXCEPT !.roots.list = NullPtr, !.roots.pairh = NullPtr]

\* what an address denotes, as a value free of addresses (the printed form)
RECURSIVE Abs(_, _)
Abs(mem, p) ==
  IF ~IsHeap(p) THEN p
  ELSE LET o == mem[p.addr]
       IN CASE o.type = TINT  -> make_int(o.intv)
            [] o.type = TSYM  -> make_symbol(o.symv)
            [] o.type = TSTR  -> make_str(o.strv)
            [] o.type = TCELL -> cons(Abs(mem, o.car), Abs(mem, o.cdr))
            [] o.type = TOBJ  ->
                 [type |-> TOBJ, proto |-> Abs(mem, o.proto),
                  props |-> [b \in Buckets |-> Abs(mem, o.props[b])]]

(***************************************************************************)
(* THE PROGRAM RUN TWICE: (obj nil (quote <alist>)), whose value is built  *)
(* by make_obj_alist (shi.c:513-522), first with collections on memory     *)
(* pressure only, then again with SHI_ALWAYS_GC set (shi.c:2599).          *)
(***************************************************************************)
\* the (key . value) pairs a property list is made of
PairChoices == {<<"a", 1>>, <<"r", 2>>, <<"a", 2>>}

RECURSIVE SeqsUpTo(_, _)
SeqsUpTo(S, n) ==
  IF n = 0 THEN {<<>>}
  ELSE SeqsUpTo(S, n - 1) \cup
       {Append(q, x) : q \in {r \in SeqsUpTo(S, n - 1) : Len(r) = n - 1},
                       x \in S}

Alists == SeqsUpTo(PairChoices, MaxPairs)
NoInput == [alist |-> <<>>, garbage |-> 0]

\* the interned symbols a and r: the objects and the symbol list
SymbolHeap ==
  << [type |-> TSYM, symv |-> "a"],
     [type |-> TSYM, symv |-> "r"],
     [type |-> TCELL, car |-> Ptr(1), cdr |-> Nil],
     [type |-> TCELL, car |-> Ptr(2), cdr |-> Ptr(3)] >>
SymAddr(name) == IF name = "a" THEN Ptr(1) ELSE Ptr(2)

\* the reader's list for the alist, last pair first
RECURSIVE read_alist(_, _, _)
read_alist(mem, al, rest) ==
  IF al = <<>> THEN [mem |-> mem, p |-> rest]
  ELSE LET e == al[Len(al)]
           n == Len(mem)
           m1 == mem \o << [type |-> TINT, intv |-> e[2]],
                           [type |-> TCELL, car |-> SymAddr(e[1]),
                                            cdr |-> Ptr(n + 1)],
                           [type |-> TCELL, car |-> Ptr(n + 2), cdr |-> rest] >>
       IN read_alist(m1, SubSeq(al, 1, Len(al) - 1), Ptr(n + 3))

\* the interpreter about to call make_obj_alist: r the reader's list
started(r, garbage, always) ==
  [always_gc |-> always, gc_running |-> FALSE,
   memory |-> r.mem \o [i \in 1..garbage |-> [type |-> TINT, intv |-> 0]],
   mem_nused |-> bytes_of(r.mem) + garbage * alloc_size(IntSize),
   symbols |-> Ptr(4),
   roots |-> [list |-> NullPtr, pairh |-> NullPtr, obj |-> NullPtr,
              key |-> NullPtr, val |-> NullPtr,
              proto |-> Nil, props |-> r.p],
   pair |-> NullPtr]

StartHeap(in, always) ==
  started(read_alist(SymbolHeap, in.alist, Nil), in.garbage, always)

Heap ==
  [always_gc |-> always_gc, gc_running |-> gc_running, memory |-> memory,
   mem_nused |-> mem_nused, symbols |-> symbols, roots |-> roots,
   pair |-> pair]

SetHeap(h) ==
  /\ always_gc' = h.always_gc
  /\ gc_running' = h.gc_running
  /\ memory' = h.memory
  /\ mem_nused' = h.mem_nused
  /\ symbols' = h.symbols
  /\ roots' = h.roots
  /\ pair' = h.pair

GCInit ==
  /\ always_gc = FALSE /\ gc_running = FALSE
  /\ memory = SymbolHeap /\ mem_nused = bytes_of(SymbolHeap)
  /\ symbols = Ptr(4)
  /\ roots = StartHeap(NoInput, FALSE).roots
  /\ pair = NullPtr
  /\ pc = "idle" /\ run = 0 /\ input = NoInput
  /\ result = NoResult /\ result1 = NoResult

\* main, shi.c:2594-2632, without SHI_ALWAYS_GC in the environment
launch(al, g) ==
  /\ run = 0
  /\ run' = 1
  /\ input' = [alist |-> al, garbage |-> g]
  /\ SetHeap(StartHeap(input', FALSE))
  /\ pc' = "make_obj"
  /\ UNCHANGED <<result, result1>>

\* the run ends with the unhandled error m (error(), shi.c:43-54, depth 0)
Exits(h, m) ==
  /\ SetHeap(h)
  /\ result' = Exit1(m)
  /\ pc' = "exited"
  /\ UNCHANGED <<run, input, result1>>

\* a read through an address the collector has invalidated
StaleRead ==
  /\ result' \in Undefined
  /\ pc' = "undefined"
  /\ UNCHANGED <<always_gc, gc_running, memory, mem_nused, symbols, roots,
                 pair, run, input, result1>>

\* make_obj after alloc, shi.c:506-510, and the start of the loop
make_obj_done(a) ==
  IF a.err # "" THEN Exits(a.h, a.err)
  ELSE /\ SetHeap([a.h EXCEPT
                     !.memory[Len(a.h.memory)].proto = a.h.roots.proto,
                     !.roots.obj = Ptr(Len(a.h.memory)),
                     \* Val *pair = *props, shi.c:516
                     !.pair = a.h.roots.props])
       /\ pc' = "loop"
       /\ UNCHANGED <<run, input, result, result1>>

\* *obj = make_obj(root, proto), shi.c:515 and 504-511
moa_make_obj ==
  /\ pc = "make_obj"
  /\ make_obj_done(alloc(Heap, [type |-> TOBJ, proto |-> Nil,
                                props |-> [b \in Buckets |-> Nil]]))

\* *key = pair->car->car; *val = pair->car->cdr, shi.c:517-518
moa_load ==
  /\ pc = "loop" /\ pair # Nil
  /\ IF pair = Dangling THEN StaleRead
     ELSE LET kv == memory[memory[pair.addr].car.addr]
          IN /\ roots' = [roots EXCEPT !.key = kv.car, !.val = kv.cdr]
             /\ pc' = "obj_set"
             /\ UNCHANGED <<always_gc, gc_running, memory, mem_nused, symbols,
                            pair, run, input, result, result1>>

\* obj_set has returned (its frame is popped) or raised
obj_set_done(r) ==
  IF r.err # "" THEN Exits(pop_obj_set(r.h), r.err)
  ELSE /\ SetHeap(pop_obj_set(r.h))
       /\ pc' = "advance"
       /\ UNCHANGED <<run, input, result, result1>>

\* obj_set(root, obj, key, val), shi.c:519
moa_obj_set ==
  /\ pc = "obj_set"
  /\ obj_set_done(obj_set_at(Heap))

\* pair = pair->cdr, shi.c:516
moa_advance ==
  /\ pc = "advance"
  /\ IF pair = Dangling THEN StaleRead
     ELSE /\ pair' = memory[pair.addr].cdr
          /\ pc' = "loop"
          /\ UNCHANGED <<always_gc, gc_running, memory, mem_nused, symbols,
                         roots, run, input, result, result1>>

\* return *obj, shi.c:521: the value of the program
moa_return ==
  /\ pc = "loop" /\ pair = Nil
  /\ result' = Value(Abs(memory, roots.obj))
  /\ pc' = "done"
  /\ UNCHANGED <<always_gc, gc_running, memory, mem_nused, symbols, roots,
                 pair, run, input, result1>>

\* the same program started again with SHI_ALWAYS_GC set: main, shi.c:2599
launch_always_gc ==
  /\ run = 1 /\ result # NoResult
  /\ run' = 2
  /\ result1' = result
  /\ result' = NoResult
  /\ SetHeap(StartHeap(input, TRUE))
  /\ pc' = "make_obj"
  /\ UNCHANGED input

(***************************************************************************)
(* PRINTER AND READER  (shi.c:669-736, 747-1030, 1445-1485)                *)
(*                                                                         *)
(* A C string is the sequence of its characters; the strv of a String and  *)
(* the symv of a Symbol are such sequences here.  A Reader is              *)
(* [pos, input, junk, past]: pos and input as in the struct; junk tells    *)
(* whether the uninitialized byte before read_string's buf is a backslash, *)
(* and past is what reading beyond the terminating NUL of the input leads  *)
(* to.  The record also carries nil_cdr, the cdr field of the static Nil   *)
(* (shi.c:129, initially a null pointer), which reader_list can write.  A  *)
(* reading function yields [r, val, err].                                  *)
(***************************************************************************)
\* elements between the braces of an alist literal
MaxElems == 4
\* top-level pieces of a text handed to read-sexp
MaxPieces == 3
\* characters of a printed String or Symbol
MaxChars == 2
\* Integers -MaxInt..MaxInt are printed and read back
MaxInt == 12

SYMBOL_MAX_LEN == 200
STRING_MAX_LEN == 1000

VARIABLES
  rd   \* the last read-sexp call: [op, val, text, out]

VARIABLES
  ev_watchers,  \* head of the global watcher list: an address, or NoWatcher
  wmem,         \* the malloc'd watcher records: address -> [live, id, next]
  watcher_id,   \* the static counter of ev_next_id
  evr           \* the last watcher operation: [n, op, id, out]

VARIABLES
  gcs,     \* the allocator and collector at work: position, spaces, tombstones
  wroots   \* WatcherState.env and .callback of the watcher records

evVars == <<ev_watchers, wmem, watcher_id, evr>>
colVars == <<gcs, wroots>>
hostVars == <<rd, evVars, colVars>>

EOF == "EOF"
\* the backquote character, which a string of this notation cannot hold
Backquote == "backquote"
Cparen == [type |-> "Cparen"]
Ccurly == [type |-> "Ccurly"]
Dot == [type |-> "Dot"]

DigitChars == <<"0", "1", "2", "3", "4", "5", "6", "7", "8", "9">>
isdigit(c) == \E i \in 1..10 : DigitChars[i] = c
DigitVal(c) == (CHOOSE i \in 1..10 : DigitChars[i] = c) - 1
isalpha(c) ==
  c \in {"a", "b", "c", "d", "e", "f", "g", "h", "i", "j", "k", "l", "m",
         "n", "o", "p", "q", "r", "s", "t", "u", "v", "w", "x", "y", "z"}
\* symbol_chars, shi.c:751
symbol_chars ==
  {"~", "!", "#", "$", "%", "^", "&", "*", "-", "_", "=", "+", ":", "/", "?",
   "<", ">"}
valid_symbol_start_char(c) == isalpha(c) \/ c \in symbol_chars
valid_symbol_char(c) == isalpha(c) \/ isdigit(c) \/ c \in symbol_chars

\* the list of the values in items, ending in tail
RECURSIVE ListOf(_, _)
ListOf(items, tail) ==
  IF items = <<>> THEN tail
  ELSE cons(items[1], ListOf(SubSeq(items, 2, Len(items)), tail))

\* reverse, shi.c:480-489
reverse(q) == [i \in 1..Len(q) |-> q[Len(q) + 1 - i]]

\* intern, shi.c:658-669: the one Symbol of that name
intern(name) == make_symbol(name)

Read(r, v) == [r |-> r, val |-> v, err |-> ""]
ReadErr(r, msg) == [r |-> r, val |-> NullPtr, err |-> msg]

\* reader_new, shi.c:770-777
reader_new(text, junk, past) ==
  [pos |-> -1, input |-> text, junk |-> junk, past |-> past,
   nil_cdr |-> NullPtr]

\* reader_peek, shi.c:784-789
reader_peek(r) ==
  IF r.pos + 1 >= Len(r.input) THEN EOF ELSE r.input[r.pos + 2]

\* reader_next, shi.c:791-797
reader_next(r) ==
  [r |-> [r EXCEPT !.pos = r.pos + 1],
   c |-> IF r.pos + 1 >= Len(r.input) THEN EOF ELSE r.input[r.pos + 2]]

\* reader_skip_line, shi.c:800-813
RECURSIVE reader_skip_line(_)
reader_skip_line(r) ==
  Then(reader_next(r),
       LAMBDA n :
         IF n.c = EOF \/ n.c = "\n" THEN n.r
         ELSE IF n.c = "\r"
         THEN IF reader_peek(n.r) = "\n" THEN reader_next(n.r).r ELSE n.r
         ELSE reader_skip_line(n.r))

\* u8_escape(buf, sz, src, '"') of deps/utf8.h, as the spec gives the escapes
RECURSIVE u8_escape(_)
u8_escape(src) ==
  IF src = <<>> THEN <<>>
  ELSE (CASE src[1] = "\"" -> <<"\\", "\"">>
          [] src[1] = "\\" -> <<"\\", "\\">>
          [] src[1] = "\n" -> <<"\\", "n">>
          [] src[1] = "\r" -> <<"\\", "r">>
          [] src[1] = "\t" -> <<"\\", "t">>
          [] OTHER -> <<src[1]>>) \o u8_escape(SubSeq(src, 2, Len(src)))

\* u8_unescape of deps/utf8.h, as the spec gives the escapes
RECURSIVE u8_unescape(_)
u8_unescape(src) ==
  IF src = <<>> THEN <<>>
  ELSE IF src[1] = "\\" /\ Len(src) > 1
  THEN <<CASE src[2] = "n" -> "\n"
           [] src[2] = "r" -> "\r"
           [] src[2] = "t" -> "\t"
           [] OTHER -> src[2]>> \o u8_unescape(SubSeq(src, 3, Len(src)))
  ELSE <<src[1]>> \o u8_unescape(SubSeq(src, 2, Len(src)))

\* sprintf(buf, "%d", n), shi.c:719
RECURSIVE PrintInt(_)
PrintInt(n) ==
  IF n < 0 THEN <<"-">> \o PrintInt(-n)
  ELSE IF n < 10 THEN <<DigitChars[n + 1]>>
  ELSE Append(PrintInt(n \div 10), DigitChars[(n % 10) + 1])

\* pr_str, shi.c:669-733, of an Integer, a String, a Symbol or Nil
pr_str(obj) ==
  CASE obj.type = TINT -> PrintInt(obj.intv)
    [] obj.type = TSTR -> <<"\"">> \o u8_escape(obj.strv) \o <<"\"">>
    [] obj.type = TSYM -> obj.symv
    [] obj.type = TNIL -> <<"(", ")">>

\* read_number, shi.c:906-911
RECURSIVE read_number(_, _)
read_number(r, val) ==
  IF isdigit(reader_peek(r))
  THEN Then(reader_next(r),
            LAMBDA n : read_number(n.r, val * 10 + DigitVal(n.c)))
  ELSE Read(r, val)

\* read_string, shi.c:913-935.  The loop tests buf[len - 1], which with
\* len = 0 is the byte before buf; an input that ends inside the string
\* is read beyond its end.
RECURSIVE read_string(_, _)
read_string(r, buf) ==
  IF \/ reader_peek(r) # "\""
     \/ IF buf = <<>> THEN r.junk ELSE buf[Len(buf)] = "\\"
  THEN IF STRING_MAX_LEN <= Len(buf) THEN ReadErr(r, "String too long")
       ELSE IF reader_peek(r) = EOF THEN ReadErr(r, r.past)
       ELSE Then(reader_next(r),
                 LAMBDA n : read_string(n.r, Append(buf, n.c)))
  ELSE Read(reader_next(r).r, make_str(u8_unescape(buf)))

\* read_symbol, shi.c:937-981: buf1 and buf2 up to len, found_colon
RECURSIVE read_symbol(_, _, _, _)
read_symbol(r, buf1, buf2, found_colon) ==
  IF valid_symbol_char(reader_peek(r))
  THEN IF SYMBOL_MAX_LEN <= Len(IF found_colon THEN buf2 ELSE buf1)
       THEN ReadErr(r, "Symbol name too long")
       ELSE Then(reader_next(r),
                 LAMBDA n :
                   IF found_colon
                   THEN read_symbol(n.r, buf1, Append(buf2, n.c), TRUE)
                   ELSE IF n.c = ":" THEN read_symbol(n.r, buf1, <<>>, TRUE)
                   ELSE read_symbol(n.r, Append(buf1, n.c), buf2, FALSE))
  ELSE IF found_colon /\ buf2 # <<>>
  THEN Read(r, ListOf(<<intern(<<":">>), intern(buf1),
                        ListOf(<<intern(<<"q", "u", "o", "t", "e">>),
                                 intern(buf2)>>, Nil)>>, Nil))
  ELSE Read(r, intern(IF found_colon THEN <<>> ELSE buf1))

\* the form { ... } is read as, shi.c:851-873, from the elements read
alist_form(items) ==
  IF Len(items) % 2 # 0 THEN "Alist contains un-even number of elements"
  ELSE IF items = <<>> THEN Nil
  ELSE cons(intern(<<"l", "i", "s", "t">>),
            ListOf(reverse([i \in 1..(Len(items) \div 2) |->
                              ListOf(<<intern(<<"c", "o", "n", "s">>),
                                       items[2 * i - 1], items[2 * i]>>, Nil)]),
                   Nil))

\* reader_expr (shi.c:983-1030), reader_list (816-835), reader_alist
\* (838-881), read_special (886-893) and read_unquote (895-904); items are
\* the elements read so far, in source order.  After a dot reader_list
\* returns reverse(*head) and stores the tail in (*head)->cdr: with no
\* element before the dot *head is Nil, the list returned is Nil and the
\* store goes to the cdr field of Nil (shi.c:829-831).
RECURSIVE reader_expr(_), reader_list(_, _), reader_alist(_, _)
read_special(r, name) ==
  Then(reader_expr(r),
       LAMBDA x : IF x.err # "" THEN x
                  ELSE Read(x.r, ListOf(<<intern(name), x.val>>, Nil)))

reader_list(r, items) ==
  Then(reader_expr(r),
       LAMBDA x :
         IF x.err # "" THEN x
         ELSE IF x.val = NullPtr THEN ReadErr(x.r, "Unclosed parenthesis")
         ELSE IF x.val = Cparen THEN Read(x.r, ListOf(items, Nil))
         ELSE IF x.val = Dot
         THEN Then(reader_expr(x.r),
                   LAMBDA last :
                     IF last.err # "" THEN last
                     ELSE Then(reader_expr(last.r),
                               LAMBDA close :
                                 IF close.err # "" THEN close
                                 ELSE IF close.val # Cparen
                                 THEN ReadErr(close.r, "Closed parenthesis expected after dot")
                                 ELSE IF items = <<>>
                                 THEN Read([close.r EXCEPT !.nil_cdr = last.val],
                                           Nil)
                                 ELSE Read(close.r, ListOf(items, last.val))))
         ELSE reader_list(x.r, Append(items, x.val)))

reader_alist(r, items) ==
  Then(reader_expr(r),
       LAMBDA x :
         IF x.err # "" THEN x
         ELSE IF x.val = NullPtr THEN ReadErr(x.r, "Unclosed curly brace")
         ELSE IF x.val = Dot THEN ReadErr(x.r, "Stray dot in alist")
         ELSE IF x.val = Cparen
         THEN ReadErr(x.r, "Stray closing parent in alist")
         ELSE IF x.val = Ccurly
         THEN IF Len(items) % 2 # 0 THEN ReadErr(x.r, alist_form(items))
              ELSE Read(x.r, alist_form(items))
         ELSE reader_alist(x.r, Append(items, x.val)))

reader_expr(r) ==
  Then(reader_next(r),
       LAMBDA n :
         IF n.c \in {" ", "\n", "\r", "\t"} THEN reader_expr(n.r)
         ELSE IF n.c = EOF THEN Read(n.r, NullPtr)
         ELSE IF n.c = ";" \/ (n.r.pos = 0 /\ n.c = "#")
         THEN reader_expr(reader_skip_line(n.r))
         ELSE IF n.c = "(" THEN reader_list(n.r, <<>>)
         ELSE IF n.c = ")" THEN Read(n.r, Cparen)
         ELSE IF n.c = "{" THEN reader_alist(n.r, <<>>)
         ELSE IF n.c = "}" THEN Read(n.r, Ccurly)
         ELSE IF n.c = "." THEN Read(n.r, Dot)
         ELSE IF n.c = "@" THEN read_special(n.r, <<"u", "n", "b", "o", "x">>)
         ELSE IF n.c = "'" THEN read_special(n.r, <<"q", "u", "o", "t", "e">>)
         ELSE IF n.c = Backquote
         THEN read_special(n.r, <<"q", "u", "a", "s", "i", "q", "u", "o", "t", "e">>)
         ELSE IF n.c = ","
         THEN IF reader_peek(n.r) = "@"
              THEN read_special(reader_next(n.r).r,
                                <<"u", "n", "q", "u", "o", "t", "e", "-",
                                  "s", "p", "l", "i", "c", "i", "n", "g">>)
              ELSE read_special(n.r, <<"u", "n", "q", "u", "o", "t", "e">>)
         ELSE IF n.c = "\"" THEN read_string(n.r, <<>>)
         ELSE IF isdigit(n.c)
         THEN Then(read_number(n.r, DigitVal(n.c)),
                   LAMBDA x : Read(x.r, make_int(x.val)))
         ELSE IF n.c = "-" /\ isdigit(reader_peek(n.r))
         THEN Then(read_number(n.r, 0), LAMBDA x : Read(x.r, make_int(-x.val)))
         ELSE IF valid_symbol_start_char(n.c)
         THEN read_symbol(n.r, <<n.c>>, <<>>, FALSE)
         ELSE ReadErr(n.r, "Don't know how to handle " \o n.c))

\* the loop of prim_read_sexp, shi.c:1458-1484: exprs in source order.
\* Yields [out, nil_cdr]: the value returned or the error raised, and the
\* cdr field of Nil as the reader leaves it.
Returned(r, v) == [out |-> v, nil_cdr |-> r.nil_cdr]

RECURSIVE read_all(_, _)
read_all(r, exprs) ==
  Then(reader_expr(r),
       LAMBDA x :
         IF x.err # "" THEN Returned(x.r, Err(x.err))
         ELSE IF x.val = NullPtr
         THEN IF Len(exprs) = 1 THEN Returned(x.r, exprs[1])
              ELSE Returned(x.r, cons(intern(<<"d", "o">>), ListOf(exprs, Nil)))
         ELSE IF x.val = Cparen
         THEN Returned(x.r, Err("Stray close parenthesis"))
         ELSE IF x.val = Ccurly
         THEN Returned(x.r, Err("Stray close curly bracket"))
         ELSE IF x.val = Dot THEN Returned(x.r, Err("Stray dot"))
         ELSE read_all(x.r, Append(exprs, x.val)))

\* prim_read_sexp, shi.c:1446-1485, applied to the value str
prim_read_sexp(str, junk, past) ==
  IF str.type # TSTR
  THEN [out |-> Err("read-sexp: 1st arg is not a string"), nil_cdr |-> NullPtr]
  ELSE read_all(reader_new(str.strv, junk, past), <<>>)

\* what reading beyond the end of the input buffer may lead to
PastEnd == {"String too long", "undefined: read beyond the input"}

\* the texts read: alist literals, and sequences of top-level pieces
RECURSIVE Join(_)
Join(q) == IF q = <<>> THEN <<>> ELSE q[1] \o <<" ">> \o Join(Tail(q))
AlistTexts ==
  {<<"{">> \o Join(q) \o <<"}">> :
     q \in SeqsUpTo({<<"a">>, <<"b">>, <<"1">>, <<"2">>}, MaxElems)}
Pieces ==
  { <<"a">>, <<"1", "2">>, <<"(", "a", " ", "1", ")">>, <<";", "a", "\n">>,
    <<"\"", "a", "\"">>, <<")">>, <<"{", "a", " ", "1", "}">> }
Programs == {Join(q) : q \in SeqsUpTo(Pieces, MaxPieces)}

\* tokens of the texts that put closers, dots and prefixes in every place
MaxTokens == 4
Tokens ==
  { <<"(">>, <<")">>, <<"}">>, <<".">>, <<"'">>, <<",">>, <<"@">>,
    <<Backquote>>, <<"a">> }
TokenTexts == {Join(q) : q \in SeqsUpTo(Tokens, MaxTokens)}

\* the atoms printed and read back
Atoms ==
  {make_int(n) : n \in (-MaxInt)..MaxInt}
    \cup {make_str(cs) : cs \in SeqsUpTo({"a", "\\", "\""}, MaxChars)}
    \cup {make_symbol(cs) : cs \in SeqsUpTo({"a", ":"}, MaxChars) \ {<<>>}}

ReaderInit ==
  rd = [op |-> "none", val |-> Nil, text |-> <<>>, out |-> Nil,
        nil_cdr |-> NullPtr]

\* (read-sexp text), the first form of a run
read_sexp(text, junk, past) ==
  /\ rd.op = "none"
  /\ rd' = Then(prim_read_sexp(make_str(text), junk, past),
                LAMBDA x : [op |-> "read-sexp", val |-> make_str(text),
                            text |-> text, out |-> x.out,
                            nil_cdr |-> x.nil_cdr])

\* (read-sexp (pr-str v)), prim_pr_str being make_str of pr_str
read_printed(v, junk, past) ==
  /\ rd.op = "none"
  /\ rd' = Then(prim_read_sexp(make_str(pr_str(v)), junk, past),
                LAMBDA x : [op |-> "round-trip", val |-> v,
                            text |-> pr_str(v), out |-> x.out,
                            nil_cdr |-> x.nil_cdr])

(***************************************************************************)
(* EVENT WATCHERS                                                          *)
(*                                                                         *)
(* A watcher and its WatcherState are two malloc'd blocks that live and    *)
(* die together; wmem holds them as one record per address.  A block that  *)
(* was freed, or never handed out, has live = FALSE, and malloc may hand   *)
(* out any such address again.  Reading a record that is not live is       *)
(* undefined behaviour: its outcome is any member of UseAfterFree.         *)
(***************************************************************************)
\* addresses malloc can return for watcher records
MaxWatchers == 3
\* watcher operations in a run
MaxEvOps == 4

NoWatcher == 0
WAddr == 1..MaxWatchers
FreeBlock == [live |-> FALSE, id |-> 0, next |-> NoWatcher]

EV_READ == "EV_READ"
EV_TIMER == "EV_TIMER"
EV_SIGNAL == "EV_SIGNAL"
EV_STAT == "EV_STAT"
WatcherTypes == {EV_READ, EV_TIMER, EV_SIGNAL, EV_STAT, "other"}

UseAfterFree ==
  {True, Nil, Err("undefined: read of a freed watcher record")}

EvInit ==
  /\ ev_watchers = NoWatcher
  /\ wmem = [a \in WAddr |-> FreeBlock]
  /\ watcher_id = 0
  /\ evr = [n |-> 0, op |-> "none", id |-> 0, out |-> Nil]

ev_next_id(wid) == wid + 1

\* the records the loop `for (w = ev_watchers; w != NULL; w = w->next)`
\* visits, up to the first one that is not live, in at most fuel steps
RECURSIVE watcher_walk(_, _, _)
watcher_walk(w, mem, fuel) ==
  IF w = NoWatcher \/ fuel = 0 THEN <<>>
  ELSE IF ~mem[w].live THEN <<w>>
  ELSE <<w>> \o watcher_walk(mem[w].next, mem, fuel - 1)

\* the search loop of prim_ev_stop from w with predecessor prevw
RECURSIVE ev_find(_, _, _, _, _)
ev_find(w, prevw, idv, mem, fuel) ==
  IF w = NoWatcher THEN [kind |-> "absent", w |-> w, prevw |-> prevw]
  ELSE IF ~mem[w].live THEN [kind |-> "freed", w |-> w, prevw |-> prevw]
  ELSE IF mem[w].id = idv THEN [kind |-> "found", w |-> w, prevw |-> prevw]
  ELSE IF fuel = 0 THEN [kind |-> "loop", w |-> w, prevw |-> prevw]
  ELSE ev_find(mem[w].next, w, idv, mem, fuel - 1)

\* (ev-start type cb arg1): type and arg1 evaluated, cbT the callback's type
prim_ev_start(type, cbT, arg1T) ==
  /\ evr.n < MaxEvOps
  /\ IF type \notin WatcherTypes
       THEN /\ evr' = [n |-> evr.n + 1, op |-> "ev-start", id |-> 0,
                       out |-> Err("ev-start: type arg not an int")]
            /\ UNCHANGED <<ev_watchers, wmem, watcher_id>>
     ELSE IF cbT # TFUN
       THEN /\ evr' = [n |-> evr.n + 1, op |-> "ev-start", id |-> 0,
                       out |-> Err("ev-start: callback arg not a function")]
            /\ UNCHANGED <<ev_watchers, wmem, watcher_id>>
     ELSE IF type = EV_STAT
       THEN /\ evr' = [n |-> evr.n + 1, op |-> "ev-start", id |-> 0,
                       out |-> Err("ev-start: TODO")]
            /\ UNCHANGED <<ev_watchers, wmem, watcher_id>>
     ELSE IF type \notin {EV_READ, EV_TIMER, EV_SIGNAL}
       THEN /\ evr' = [n |-> evr.n + 1, op |-> "ev-start", id |-> 0,
                       out |-> Err("ev-start: unknown watcher type")]
            /\ UNCHANGED <<ev_watchers, wmem, watcher_id>>
     ELSE IF arg1T # TINT
       THEN /\ evr' = [n |-> evr.n + 1, op |-> "ev-start", id |-> 0,
                       out |-> Err(
                         CASE type = EV_READ ->
                                "ev-start: io watcher needs a file descriptor"
                           [] type = EV_TIMER ->
                                "ev-start: timer watcher needs a delay as int"
                           [] type = EV_SIGNAL ->
                                "ev-start: signal watcher needs a signal number as integer")]
            /\ UNCHANGED <<ev_watchers, wmem, watcher_id>>
     ELSE \E w \in {a \in WAddr : ~wmem[a].live} :
            /\ wmem' = [wmem EXCEPT ![w] = [live |-> TRUE,
                                             id |-> ev_next_id(watcher_id),
                                             next |-> ev_watchers]]
            /\ ev_watchers' = w
            /\ watcher_id' = ev_next_id(watcher_id)
            /\ evr' = [n |-> evr.n + 1, op |-> "ev-start",
                       id |-> ev_next_id(watcher_id),
                       out |-> make_int(ev_next_id(watcher_id))]

\* prim_ev_stop as the code has it: the found record is unlinked from its
\* predecessor only, and freed (free leaves the bytes of the block as they
\* are)
ev_stop_unlink(head, mem, f) ==
  [head |-> head,
   mem |-> IF f.prevw # NoWatcher
             THEN [mem EXCEPT ![f.prevw].next = mem[f.w].next,
                              ![f.w].live = FALSE]
             ELSE [mem EXCEPT ![f.w].live = FALSE]]

\* (ev-stop wid), v the evaluated argument
prim_ev_stop(v) ==
  /\ evr.n < MaxEvOps
  /\ IF v.type # TINT
       THEN /\ evr' = [n |-> evr.n + 1, op |-> "ev-stop", id |-> 0,
                       out |-> Err("ev-stop: 1st arg not int")]
            /\ UNCHANGED <<ev_watchers, wmem, watcher_id>>
     ELSE
       LET f == ev_find(ev_watchers, NoWatcher, v.intv, wmem, MaxWatchers)
       IN CASE f.kind = "found" ->
                 /\ ev_watchers' = ev_stop_unlink(ev_watchers, wmem, f).head
                 /\ wmem' = ev_stop_unlink(ev_watchers, wmem, f).mem
                 /\ evr' = [n |-> evr.n + 1, op |-> "ev-stop", id |-> v.intv,
                            out |-> True]
                 /\ UNCHANGED watcher_id
            [] f.kind = "absent" ->
                 /\ evr' = [n |-> evr.n + 1, op |-> "ev-stop", id |-> v.intv,
                            out |-> Nil]
                 /\ UNCHANGED <<ev_watchers, wmem, watcher_id>>
            [] f.kind = "freed" ->
                 /\ \E o \in UseAfterFree :
                      evr' = [n |-> evr.n + 1, op |-> "ev-stop",
                              id |-> v.intv, out |-> o]
                 /\ UNCHANGED <<ev_watchers, wmem, watcher_id>>
            [] f.kind = "loop" ->
                 /\ evr' = [n |-> evr.n + 1, op |-> "ev-stop", id |-> v.intv,
                            out |-> Err("does not return")]
                 /\ UNCHANGED <<ev_watchers, wmem, watcher_id>>

\* the watcher loop of forward_root_objects, run by a collection
forward_watchers ==
  /\ evr.n < MaxEvOps
  /\ LET ws == watcher_walk(ev_watchers, wmem, MaxWatchers + 1)
     IN evr' = [n |-> evr.n + 1, op |-> "gc", id |-> 0,
                out |-> IF \E i \in 1..Len(ws) : ~wmem[ws[i]].live
                          THEN Err("undefined: read of a freed watcher record")
                        ELSE IF Len(ws) > MaxWatchers
                          THEN Err("does not return")
                        ELSE Nil]
  /\ UNCHANGED <<ev_watchers, wmem, watcher_id>>


(***************************************************************************)
(* THE ALLOCATOR AND THE COLLECTOR, STEP BY STEP  (shi.c:262-437)          *)
(*                                                                         *)
(* gcs.phase is the position in alloc and gc: "always" and "full" are the  *)
(* two tests that may start a collection (shi.c:281-286), "gc_roots" and   *)
(* "gc_scan" the two halves of gc, "exhausted" the end of alloc.  During a *)
(* collection memory is the to-space and gcs.g.from the from-space.        *)
(* gcs.before and gcs.after are the roots and the space as a collection    *)
(* found and left them, gcs.fwd the tombstones it wrote.                   *)
(***************************************************************************)
\* calls of alloc in a run
MaxAllocs == 2

\* the part of the heap the program has built: two objects that may refer
\* to each other and to themselves
ExtraAddrs == {Len(SymbolHeap) + 1, Len(SymbolHeap) + 2}
ExtraPtrs == {Nil} \cup {Ptr(a) : a \in ExtraAddrs}
ExtraObjs ==
  {[type |-> TINT, intv |-> 0]}
    \cup {[type |-> TCELL, car |-> a, cdr |-> d] : a, d \in ExtraPtrs}
    \cup {[type |-> TOBJ, proto |-> a,
           props |-> [b \in Buckets |-> IF b = 0 THEN a ELSE Nil]] :
            a \in ExtraPtrs}
    \cup {[type |-> TFUN, params |-> Nil, body |-> Nil, env |-> a] :
            a \in ExtraPtrs}

\* the second of the two: an Integer, or a cell that refers to the first
\* object and to itself
SecondObjs ==
  {[type |-> TINT, intv |-> 0],
   [type |-> TCELL, car |-> Ptr(Len(SymbolHeap) + 1),
                    cdr |-> Ptr(Len(SymbolHeap) + 2)]}

\* the object alloc is asked for
Blank(type) ==
  IF type = TOBJ
  THEN [type |-> TOBJ, proto |-> Nil, props |-> [b \in Buckets |-> Nil]]
  ELSE [type |-> TINT, intv |-> 0]

NoSpaces == [from |-> <<>>, to |-> <<>>, fwd |-> <<>>]
NoSnapshot == [memory |-> <<>>, symbols |-> NullPtr, roots |-> <<>>, wr |-> <<>>]

ColInit ==
  /\ gcs = [phase |-> "fresh", n |-> 0, type |-> TINT, ret |-> "idle",
            g |-> NoSpaces, scan1 |-> 1, cycles |-> 0, ended |-> FALSE,
            entered_running |-> FALSE, alloc_running |-> FALSE,
            err |-> "", before |-> NoSnapshot, after |-> NoSnapshot,
            fwd |-> <<>>]
  /\ wroots = [a \in WAddr |-> [env |-> NullPtr, callback |-> NullPtr]]

\* the records the watcher loop of forward_root_objects visits when freed
\* blocks still hold their bytes
RECURSIVE stale_walk(_, _, _)
stale_walk(w, mem, fuel) ==
  IF w = NoWatcher \/ fuel = 0 THEN <<>>
  ELSE <<w>> \o stale_walk(mem[w].next, mem, fuel - 1)

\* wdata->env and wdata->callback of the records ws, in the loop's order
watcher_roots(ws, wr) ==
  [i \in 1..(2 * Len(ws)) |->
     IF i % 2 = 1 THEN wr[ws[(i + 1) \div 2]].env
     ELSE wr[ws[i \div 2]].callback]

\* the interpreter with data on the heap and in two handles, about to run:
\* main, shi.c:2594-2632
col_load(extra, robj, rval, garbage, always) ==
  /\ gcs.phase = "fresh"
  /\ memory' = SymbolHeap \o extra \o
                 [i \in 1..garbage |-> [type |-> TINT, intv |-> 0]]
  /\ mem_nused' = bytes_of(memory')
  /\ roots' = [roots EXCEPT !.obj = robj, !.val = rval]
  /\ always_gc' = always
  /\ gcs' = [gcs EXCEPT !.phase = "idle"]
  /\ UNCHANGED <<gc_running, symbols, pair, pc, run, input, result, result1,
                 wroots, evVars>>

\* (ev-start type cb arg1) in env: wdata->env = *env; wdata->callback = *cb
ev_start_rooted(env, cb) ==
  /\ gcs.phase = "idle"
  /\ prim_ev_start(EV_TIMER, TFUN, TINT)
  /\ wroots' = [wroots EXCEPT ![ev_watchers'] = [env |-> env, callback |-> cb]]
  /\ UNCHANGED <<gcs, gcVars>>

\* (ev-stop wid) between two allocations
ev_stop_rooted(v) ==
  /\ gcs.phase = "idle"
  /\ prim_ev_stop(v)
  /\ UNCHANGED <<gcs, wroots, gcVars>>

\* alloc(root, type, size) is called, shi.c:262-273
alloc_call(type) ==
  /\ gcs.phase = "idle" /\ gcs.n < MaxAllocs
  /\ gcs' = [gcs EXCEPT !.phase = "always", !.type = type, !.n = gcs.n + 1,
                        !.ended = FALSE, !.err = ""]
  /\ UNCHANGED <<gcVars, wroots, evVars>>

\* what the roots and the space are, for the record
Snapshot ==
  [memory |-> memory, symbols |-> symbols, roots |-> roots,
   wr |-> watcher_roots(watcher_walk(ev_watchers, wmem, MaxWatchers), wroots)]

\* the start of gc, shi.c:377-386; alloc goes on at ret when gc returns
gc_enter(ret) ==
  /\ gcs' = [gcs EXCEPT !.phase = "gc_roots", !.ret = ret,
                        !.entered_running = gcs.entered_running \/ gc_running,
                        !.g = [from |-> memory, to |-> <<>>,
                               fwd |-> [i \in 1..Len(memory) |-> 0]],
                        !.scan1 = 1, !.cycles = gcs.cycles + 1,
                        !.before = Snapshot]
  /\ gc_running' = TRUE
  /\ memory' = <<>>
  /\ UNCHANGED <<always_gc, mem_nused, symbols, roots, pair, pc, run, input,
                 result, result1, wroots, evVars>>

\* if (always_gc && !gc_running) gc(root), shi.c:281-282
alloc_check_always ==
  /\ gcs.phase = "always"
  /\ IF always_gc /\ ~gc_running THEN gc_enter("full")
     ELSE /\ gcs' = [gcs EXCEPT !.phase = "full"]
          /\ UNCHANGED <<gcVars, wroots, evVars>>

\* if (!always_gc && MEMORY_SIZE < mem_nused + size) gc(root), shi.c:285-286
alloc_check_full ==
  /\ gcs.phase = "full"
  /\ IF ~always_gc /\ MemBytes < mem_nused + size_of(Blank(gcs.type))
     THEN gc_enter("exhausted")
     ELSE /\ gcs' = [gcs EXCEPT !.phase = "exhausted"]
          /\ UNCHANGED <<gcVars, wroots, evVars>>

\* forward_root_objects, shi.c:353-372, with the watcher loop.  A watcher
\* record that was freed is read all the same: the process crashes, or the
\* bytes the block still holds are used.
gc_forward_roots ==
  /\ gcs.phase = "gc_roots"
  /\ LET ws == stale_walk(ev_watchers, wmem, MaxWatchers + 1)
         r == forward_root_objects(gcs.g, symbols, roots)
         f == forward_seq(r.g, watcher_roots(ws, wroots))
     IN IF Len(ws) > MaxWatchers
        THEN \* the list is a cycle: the loop does not end
             /\ gcs' = [gcs EXCEPT !.phase = "hang"]
             /\ UNCHANGED <<gcVars, wroots, evVars>>
        ELSE \E outcome \in IF \E i \in 1..Len(ws) : ~wmem[ws[i]].live
                            THEN {"crash", "stale"} ELSE {"read"} :
               IF outcome = "crash"
               THEN /\ gcs' = [gcs EXCEPT !.phase = "undefined"]
                    /\ UNCHANGED <<gcVars, wroots, evVars>>
               ELSE /\ symbols' = r.symbols
                    /\ roots' = r.roots
                    /\ wroots' = [a \in WAddr |->
                         IF \E i \in 1..Len(ws) : ws[i] = a
                         THEN LET i == CHOOSE j \in 1..Len(ws) : ws[j] = a
                              IN [env |-> f.ps[2 * i - 1],
                                  callback |-> f.ps[2 * i]]
                         ELSE wroots[a]]
                    /\ memory' = f.g.to
                    /\ gcs' = [gcs EXCEPT !.phase = "gc_scan", !.g = f.g]
                    /\ UNCHANGED <<always_gc, gc_running, mem_nused, pair, pc,
                                   run, input, result, result1, evVars>>

\* one turn of the loop `while (scan1 < scan2)`, shi.c:396-426
gc_scan_step ==
  /\ gcs.phase = "gc_scan" /\ gcs.scan1 <= Len(gcs.g.to)
  /\ LET g1 == scan_one(gcs.scan1,
                        forward_seq(gcs.g, fields_of(gcs.g.to[gcs.scan1])))
     IN /\ gcs' = [gcs EXCEPT !.g = g1, !.scan1 = gcs.scan1 + 1]
        /\ memory' = g1.to
  /\ UNCHANGED <<always_gc, gc_running, mem_nused, symbols, roots, pair, pc,
                 run, input, result, result1, wroots, evVars>>

\* the loop has ended: munmap, mem_nused, gc_running = false, shi.c:428-436
gc_end ==
  /\ gcs.phase = "gc_scan" /\ gcs.scan1 > Len(gcs.g.to)
  /\ LET h == gc_finish(Heap, [g |-> gcs.g, symbols |-> symbols,
                               roots |-> roots])
     IN /\ memory' = h.memory
        /\ mem_nused' = h.mem_nused
        /\ pair' = h.pair
        /\ gc_running' = FALSE
        /\ gcs' = [gcs EXCEPT !.phase = gcs.ret, !.ended = TRUE,
                              !.fwd = gcs.g.fwd, !.g = NoSpaces,
                              !.after = [Snapshot EXCEPT !.memory = h.memory]]
  /\ UNCHANGED <<always_gc, symbols, roots, pc, run, input, result, result1,
                 wroots, evVars>>

\* the end of alloc, shi.c:291-299; the caller keeps the object in a handle
alloc_end ==
  /\ gcs.phase = "exhausted"
  /\ LET a == alloc_obj(Heap, Blank(gcs.type))
     IN IF a.err # ""
        THEN /\ gcs' = [gcs EXCEPT !.phase = "idle", !.err = a.err]
             /\ UNCHANGED <<gcVars, wroots, evVars>>
        ELSE /\ memory' = a.h.memory
             /\ mem_nused' = a.h.mem_nused
             /\ roots' = [roots EXCEPT !.key = Newest(a.h)]
             /\ gcs' = [gcs EXCEPT !.phase = "idle",
                          !.alloc_running = gcs.alloc_running \/ gc_running]
             /\ UNCHANGED <<always_gc, gc_running, symbols, pair, pc, run,
                            input, result, result1, wroots, evVars>>

vars == <<trapVars, objVars, gcVars, hostVars>>

Init == TrapInit /\ ObjInit /\ GCInit /\ ReaderInit /\ EvInit /\ ColInit

\* errors and trap-error: raise, rescue, return
TrapNext ==
  \/ (\E m \in UserMsgs : prim_error(m)) /\ UNCHANGED <<objVars, gcVars, hostVars>>
  \/ eval_check_error /\ UNCHANGED <<objVars, gcVars, hostVars>>
  \/ alloc_memory_exhausted /\ UNCHANGED <<objVars, gcVars, hostVars>>
  \/ gc_unknown_type /\ UNCHANGED <<objVars, gcVars, hostVars>>
  \/ (\E fnT \in {TFUN, TINT}, efnT \in {TFUN, TINT} :
        prim_trap_error(fnT, efnT)) /\ UNCHANGED <<objVars, gcVars, hostVars>>
  \/ (\E v \in IntVals : trap_thunk_return(v)) /\ UNCHANGED <<objVars, gcVars, hostVars>>
  \/ (\E v \in IntVals : trap_handler_return(v))
       /\ UNCHANGED <<objVars, gcVars, hostVars>>

\* the object primitives applied to evaluated arguments
ObjNext ==
  \/ (\E proto \in {Nil} \cup ObjArgs(objs), props \in PropLists :
        prim_obj(proto, props)) /\ UNCHANGED <<gcVars, hostVars>>
  \/ (\E o \in ObjArgs(objs), k \in KeyArgs : prim_obj_get(o, k))
       /\ UNCHANGED <<gcVars, hostVars>>
  \/ (\E o \in ObjArgs(objs), k \in KeyArgs, v \in IntVals :
        prim_obj_set(o, k, v)) /\ UNCHANGED <<gcVars, hostVars>>
  \/ (\E o \in ObjArgs(objs), k \in KeyArgs : prim_obj_del(o, k))
       /\ UNCHANGED <<gcVars, hostVars>>

\* forms evaluated and closures applied in the current environment
EnvNext ==
  \/ (\E op \in {"def", "def-global", "set"}, sym \in Syms, e \in Exprs :
        eval_form(Form(op, sym, e))) /\ UNCHANGED <<gcVars, hostVars>>
  \/ (\E sym \in Syms : eval_form(sym)) /\ UNCHANGED <<gcVars, hostVars>>
  \/ (\E fnenv \in {i \in ObjIds : objs[i].used}, params \in ParamLists,
         args \in ArgLists : apply_func(fnenv, params, args))
       /\ UNCHANGED <<gcVars, hostVars>>
  \/ fn_return /\ UNCHANGED <<gcVars, hostVars>>

\* the operations that write property tables: obj, obj-set, obj-del on
\* objects, def and set in the current environment
TableNext ==
  \/ (\E proto \in {Nil} \cup UsedRefs(objs), props \in PropLists :
        prim_obj(proto, props)) /\ UNCHANGED <<gcVars, hostVars>>
  \/ (\E o \in UsedRefs(objs), k \in Keys, v \in IntVals :
        prim_obj_set(o, k, v)) /\ UNCHANGED <<gcVars, hostVars>>
  \/ (\E o \in UsedRefs(objs), k \in KeyArgs : prim_obj_del(o, k))
       /\ UNCHANGED <<gcVars, hostVars>>
  \/ (\E op \in {"def", "set"}, sym \in Syms, e \in IntVals :
        eval_form(Form(op, sym, e))) /\ UNCHANGED <<gcVars, hostVars>>

\* obj_del called on an object and a hashable key, as prim_obj_del calls
\* it at shi.c:1623
obj_del_call(o, k) ==
  LET e == [NoEv EXCEPT !.op = "obj_del", !.o = o, !.k = k]
  IN /\ proc = "running" /\ steps < MaxOps /\ steps' = steps + 1
     /\ IF obj_del(objs, o.id, k).crash
        THEN /\ proc' = "undefined: crash"
             /\ ev' = e
             /\ UNCHANGED <<objs, envs, error_depth, error_value,
                            error_jmp_env, traps>>
        ELSE Completes(e, o, obj_del(objs, o.id, k).os)

\* tables built by obj and obj-set; obj-del, and obj_del on its own
DelNext ==
  \/ (\E proto \in {Nil} \cup UsedRefs(objs), props \in PropLists :
        prim_obj(proto, props)) /\ UNCHANGED <<gcVars, hostVars>>
  \/ (\E o \in UsedRefs(objs), k \in Keys, v \in IntVals :
        prim_obj_set(o, k, v)) /\ UNCHANGED <<gcVars, hostVars>>
  \/ (\E o \in UsedRefs(objs), k \in Keys : prim_obj_del(o, k))
       /\ UNCHANGED <<gcVars, hostVars>>
  \/ (\E o \in UsedRefs(objs), k \in Keys : obj_del_call(o, k))
       /\ UNCHANGED <<gcVars, hostVars>>

\* values handed to obj-proto-set! as the new prototype
ProtoArgs(os) == UsedRefs(os) \cup {Nil, make_int(1)}

\* the operations that write or follow prototype links
ProtoNext ==
  \/ (\E proto \in {Nil} \cup ObjArgs(objs), props \in {Nil, list1(cons(SymA, make_int(1)))} :
        prim_obj(proto, props)) /\ UNCHANGED <<gcVars, hostVars>>
  \/ (\E o \in ObjArgs(objs) : prim_obj_proto(o))
       /\ UNCHANGED <<gcVars, hostVars>>
  \/ (\E o \in ObjArgs(objs), p \in ProtoArgs(objs) :
        prim_obj_proto_set(o, p)) /\ UNCHANGED <<gcVars, hostVars>>
  \/ (\E o \in UsedRefs(objs), k \in {SymA, SymB} : obj_get_walk(o, k))
       /\ UNCHANGED <<gcVars, hostVars>>
  \/ (\E sym \in {SymA} : def_global_walk(sym, make_int(1)))
       /\ UNCHANGED <<gcVars, hostVars>>
  \/ (\E fnenv \in {i \in ObjIds : objs[i].used},
         params \in {Nil, list1(SymA)}, args \in {list1(make_int(1))} :
        apply_func(fnenv, params, args)) /\ UNCHANGED <<gcVars, hostVars>>
  \/ fn_return /\ UNCHANGED <<gcVars, hostVars>>

\* make_obj_alist on the heap, run without and then with SHI_ALWAYS_GC
GCNext ==
  \/ (\E al \in Alists, g \in 0..MaxGarbage : launch(al, g))
       /\ UNCHANGED <<trapVars, objVars, hostVars>>
  \/ moa_make_obj /\ UNCHANGED <<trapVars, objVars, hostVars>>
  \/ moa_load /\ UNCHANGED <<trapVars, objVars, hostVars>>
  \/ moa_obj_set /\ UNCHANGED <<trapVars, objVars, hostVars>>
  \/ moa_advance /\ UNCHANGED <<trapVars, objVars, hostVars>>
  \/ moa_return /\ UNCHANGED <<trapVars, objVars, hostVars>>
  \/ launch_always_gc /\ UNCHANGED <<trapVars, objVars, hostVars>>

\* functions and macros defined, frames pushed, applications evaluated
MacroNext ==
  \/ (\E f \in Functions : eval_form(Form("def", SymB, f)))
       /\ UNCHANGED <<gcVars, hostVars>>
  \/ (\E fnenv \in {i \in ObjIds : objs[i].used} :
        apply_func(fnenv, list1(SymR), list1(make_int(2))))
       /\ UNCHANGED <<gcVars, hostVars>>
  \/ (\E h \in Heads, a \in CallArgs : eval_application(cons(h, a)))
       /\ UNCHANGED <<gcVars, hostVars>>

\* texts read, and atoms printed and read back
ReaderNext ==
  \/ (\E text \in AlistTexts \cup Programs, junk \in BOOLEAN, past \in PastEnd :
        read_sexp(text, junk, past))
       /\ UNCHANGED <<trapVars, objVars, gcVars, evVars, colVars>>
  \/ (\E v \in Atoms, junk \in BOOLEAN, past \in PastEnd :
        read_printed(v, junk, past))
       /\ UNCHANGED <<trapVars, objVars, gcVars, evVars, colVars>>

\* read-sexp on texts of closers, dots, prefixes and a symbol; they hold
\* no string literal, so what lies around read_string's buffers is idle
TokenNext ==
  (rd.op = "none" /\ \E text \in TokenTexts :
                       read_sexp(text, FALSE, "String too long"))
    /\ UNCHANGED <<trapVars, objVars, gcVars, evVars, colVars>>

\* apply forms, between definitions of the symbol the lists mention
ApplyNext ==
  \/ (\E e \in IntVals : eval_form(Form("def", SymA, e)))
       /\ UNCHANGED <<gcVars, hostVars>>
  \/ (\E f \in ApplyHeads, list \in ApplyLists : apply_form(f, list))
       /\ UNCHANGED <<gcVars, hostVars>>

\* watchers registered, stopped, and walked by a collection
EvNext ==
  \/ (\E type \in WatcherTypes \cup {"string"}, cbT \in {TFUN, TINT},
         arg1T \in {TINT, TSTR} :
        prim_ev_start(type, cbT, arg1T))
       /\ UNCHANGED <<trapVars, objVars, gcVars, rd, colVars>>
  \/ (\E v \in {make_int(n) : n \in 1..MaxEvOps} \cup {Nil} :
        prim_ev_stop(v)) /\ UNCHANGED <<trapVars, objVars, gcVars, rd, colVars>>
  \/ forward_watchers /\ UNCHANGED <<trapVars, objVars, gcVars, rd, colVars>>

\* a heap loaded, one watcher registered and stopped before the first
\* allocation, objects allocated
ColNext ==
  \/ (\E o1 \in ExtraObjs, o2 \in SecondObjs,
         robj \in {NullPtr, Ptr(Len(SymbolHeap) + 1)},
         ga \in {<<0, TRUE>>, <<0, FALSE>>, <<MaxGarbage, FALSE>>} :
        col_load(<<o1, o2>>, robj, NullPtr, ga[1], ga[2]))
       /\ UNCHANGED <<trapVars, objVars, rd>>
  \/ (gcs.n = 0 /\ watcher_id = 0 /\
        \E env \in {Ptr(Len(SymbolHeap) + 1)}, cb \in {Ptr(Len(SymbolHeap) + 2)} :
          ev_start_rooted(env, cb)) /\ UNCHANGED <<trapVars, objVars, rd>>
  \/ (gcs.n = 0 /\ evr.op = "ev-start" /\
        \E v \in {make_int(watcher_id)} : ev_stop_rooted(v))
       /\ UNCHANGED <<trapVars, objVars, rd>>
  \/ (\E type \in {TOBJ} : alloc_call(type))
       /\ UNCHANGED <<trapVars, objVars, rd>>
  \/ alloc_check_always /\ UNCHANGED <<trapVars, objVars, rd>>
  \/ alloc_check_full /\ UNCHANGED <<trapVars, objVars, rd>>
  \/ gc_forward_roots /\ UNCHANGED <<trapVars, objVars, rd>>
  \/ gc_scan_step /\ UNCHANGED <<trapVars, objVars, rd>>
  \/ gc_end /\ UNCHANGED <<trapVars, objVars, rd>>
  \/ alloc_end /\ UNCHANGED <<trapVars, objVars, rd>>

SpecTrap == Init /\ [][TrapNext]_vars

SpecCollect == Init /\ [][ColNext]_vars

SpecEv == Init /\ [][EvNext]_vars

SpecReader == Init /\ [][ReaderNext]_vars

SpecMacro == Init /\ [][MacroNext]_vars

SpecObj == Init /\ [][ObjNext]_vars

SpecEnv == Init /\ [][EnvNext]_vars

SpecTable == Init /\ [][TableNext]_vars

SpecDel == Init /\ [][DelNext]_vars

SpecProto == Init /\ [][ProtoNext]_vars

SpecToken == Init /\ [][TokenNext]_vars

SpecApply == Init /\ [][ApplyNext]_vars

SpecGC == Init /\ [][GCNext]_vars

(***************************************************************************)
(* THE CLAIMS                                                              *)
(***************************************************************************)
\* an error raised by the `error` primitive or by an evaluator or
\* primitive check was the last step
Raised == ev.kind \in {"user", "check"}

\* C1: an error with message m raised by `error` or by an evaluator or
\* primitive check is delivered to the innermost trap-error call whose
\* thunk is being evaluated: its handler gets control with the String m.
\* When no such call is in progress, the process reports the unhandled
\* error m and exits with status 1.
C1_ErrorReachesInnermostTrap ==
  Raised =>
    IF ev.inner > 0
    THEN /\ proc = "running"
         /\ Len(traps) = ev.inner
         /\ traps[ev.inner] = [phase |-> "handler", arg |-> make_str(ev.msg)]
    ELSE /\ proc = "exit 1: unhandled error"
         /\ error_value = ev.msg

\* C2: (trap-error f h) returns the value of (f) when no error is raised
\* in it; when an error with message m is raised while (f) is evaluated,
\* (h s) is called with s the String m, and its value is the result.
C2_TrapErrorResult ==
  /\ ev.op = "return" => ev.out = ev.val
  /\ Raised /\ ev.inner > 0 =>
       /\ proc = "running"
       /\ traps[Len(traps)] = [phase |-> "handler", arg |-> make_str(ev.msg)]

\* C3: a fatal error (memory exhaustion, the rescue stack exceeding its
\* maximum depth, an internal collector error) is never delivered to a
\* trap-error handler: no handler is invoked and the process does not
\* continue.
C3_FatalNeverTrapped ==
  ev.kind \in {"memory", "rescue", "collector"} => proc # "running"

\* the number of cells of a list: the positional formals of a parameter
\* list, the arguments of an argument list
RECURSIVE NumCells(_)
NumCells(l) == IF l.type = TCELL THEN 1 + NumCells(l.cdr) ELSE 0

\* a closure was applied to fewer arguments than it has positional formals
TooFewArgs == ev.op = "apply" /\ NumCells(ev.val) < NumCells(ev.k)

ArityMsg == "Cannot apply function: number of argument does not match"

\* C4 (as stated): a closure with n positional formals applied to m < n
\* arguments does not raise an error: the call returns a new closure over
\* the remaining formals.
C4_PartialApplication ==
  TooFewArgs => ev.kind = "none" /\ proc = "running" /\ ev.out.type = TFUN

\* C4 (amended): a closure with n positional formals applied to m < n
\* arguments raises the error "Cannot apply function: number of argument
\* does not match"; nothing is returned and the call does not continue
\* into the body.
C4_TooFewArgsIsError ==
  TooFewArgs =>
    /\ ev.kind = "check"
    /\ ev.out = Err(ArityMsg)
    /\ error_value = ArityMsg

\* C4 witness: (fn (a b) ...) applied to one argument has raised
C4_Witness ==
  /\ TooFewArgs
  /\ ev.k = list2(SymA, SymB) /\ ev.val = list1(make_int(1))
  /\ ev.out.type = "error"

\* C5: the program run with SHI_ALWAYS_GC set ends as the same program run
\* with collections on memory pressure only: same value, same error.
C5_AlwaysGcSameResult ==
  run = 2 /\ result # NoResult => result = result1

\* the objects from o up its prototype chain, o first
RECURSIVE chain_from(_, _, _)
chain_from(os, o, n) ==
  IF o = Nil \/ n = 0 THEN <<>>
  ELSE <<o.id>> \o chain_from(os, os[o.id].proto, n - 1)

Chain(os, id) == chain_from(os, ObjRef(id), MaxObj)

\* the (key, value) cells of every object's own table, whatever the bucket
Cells(os) ==
  [o \in ObjIds |->
     UNION {{os[o].props[b][i] : i \in 1..Len(os[o].props[b])} : b \in Buckets}]

\* the values object o itself holds for key k, given the cells cs
ValuesIn(cs, o, k) == {c[2] : c \in {d \in cs[o] : obj_key_eq(k, d[1])}}

BoundValues(os, o, k) == ValuesIn(Cells(os), o, k)

Binds(os, o, k) == BoundValues(os, o, k) # {}

\* the positions in the chain ch of the objects that bind k
BindersIn(cs, ch, k) == {i \in 1..Len(ch) : ValuesIn(cs, ch[i], k) # {}}

Binders(os, ch, k) == BindersIn(Cells(os), ch, k)

\* the first of them
NearestIn(cs, ch, k) ==
  ch[CHOOSE i \in BindersIn(cs, ch, k) : \A j \in BindersIn(cs, ch, k) : i <= j]

Nearest(os, ch, k) == NearestIn(Cells(os), ch, k)

\* C6: for every key k that is a Symbol, a String or an Integer, once
\* (obj-set o k v) has completed, (obj-get o k) returns v.
C6_SetThenGet ==
  ev.op = "obj-set" /\ ev.kind = "none" /\ obj_valid_key(ev.k) =>
    obj_get_result(objs, ev.o, ev.k) = ev.val

\* C7: (obj-del o k) accepts every key that is a Symbol, a String or an
\* Integer, and after it o's own table has no binding for k.
C7_DelAcceptsValidKeys ==
  ev.op = "obj-del" /\ ev.o.type = TOBJ /\ obj_valid_key(ev.k) =>
    /\ ev.kind = "none"
    /\ proc = "running"
    /\ ~Binds(objs, ev.o.id, ev.k)

\* C8 (as stated): (obj-get o k) looks k up in o's own table only: when k
\* is not bound in o itself the error "obj-get: unbound symbol" is raised,
\* whatever o's prototypes bind.
C8_GetOwnTableOnly ==
  ev.op = "obj-get" /\ ev.o.type = TOBJ /\ ev.k.type = TSYM
    /\ ~Binds(objs, ev.o.id, ev.k) =>
      ev.out = Err("obj-get: unbound symbol")

\* C8 (amended): (obj-get o k), k a Symbol, returns the value bound to k
\* in the nearest object of o's prototype chain (o first) that binds k;
\* "obj-get: unbound symbol" is raised exactly when no object of the chain
\* binds k.
C8_GetWalksPrototypes ==
  ev.op = "obj-get" /\ ev.o.type = TOBJ /\ ev.k.type = TSYM =>
    LET ch == Chain(objs, ev.o.id)
    IN IF Binders(objs, ch, ev.k) = {}
       THEN ev.out = Err("obj-get: unbound symbol")
       ELSE /\ ev.kind = "none"
            /\ BoundValues(objs, Nearest(objs, ch, ev.k), ev.k) = {ev.out}

\* C8 witness: obj-get has returned a value that only a prototype binds
C8_Witness ==
  /\ ev.op = "obj-get" /\ ev.o.type = TOBJ /\ ev.k.type = TSYM
  /\ ~Binds(objs, ev.o.id, ev.k)
  /\ ev.out.type = TINT

\* C9: env_get(env, sym) returns the binding of sym held by the innermost
\* environment of env's chain that defines sym, and not-found (NULL)
\* exactly when no environment of the chain binds it; so does the
\* evaluation of a symbol, which reads that binding's value.
C9_EnvGetInnermost ==
  \A cs \in {Cells(objs)} :
    /\ \A env \in {i \in ObjIds : objs[i].used}, sym \in Syms :
         \A ch \in {Chain(objs, env)}, c \in {env_get(objs, env, sym)} :
           IF BindersIn(cs, ch, sym) = {} THEN c = NULL
           ELSE /\ c # NULL
                /\ c.obj = NearestIn(cs, ch, sym)
                /\ obj_key_eq(sym, objs[c.obj].props[c.h][c.i][1])
    /\ ev.op = "symbol" =>
         \A ch \in {Chain(objs, ev.o.id)} :
           IF BindersIn(cs, ch, ev.k) = {}
           THEN ev.out = Err("eval: undefined symbol: " \o ev.k.symv)
           ELSE ValuesIn(cs, NearestIn(cs, ch, ev.k), ev.k) = {ev.out}

\* C9 witness: a symbol bound in the frame and, to another value, in an
\* enclosing environment has been evaluated to the frame's value
C9_Witness ==
  /\ ev.op = "symbol" /\ ev.kind = "none"
  /\ Binds(objs, ev.o.id, ev.k)
  /\ \E i \in 2..Len(Chain(objs, ev.o.id)) :
       /\ Binds(objs, Chain(objs, ev.o.id)[i], ev.k)
       /\ ev.out \notin BoundValues(objs, Chain(objs, ev.o.id)[i], ev.k)

\* e is a (def-global s ...) form: it binds s in the global environment
DefinesGlobally(e, s) == e.type = "form" /\ e.op = "def-global" /\ e.sym = s

\* C10: (def s e) evaluated in environment E binds s to the value of e in
\* E's own table, and no environment further up E's prototype chain gains
\* or changes a binding of s.
C10_DefBindsInOwnTableOnly ==
  [][ev'.op = "def" /\ ev'.kind = "none" =>
       /\ BoundValues(objs', ev'.o.id, ev'.k) = {ev'.out}
       /\ ~DefinesGlobally(ev'.val, ev'.k) =>
            \A o \in ObjIds \ {ev'.o.id} :
              BoundValues(objs', o, ev'.k) = BoundValues(objs, o, ev'.k)]_vars

\* C11: (def-global s e) evaluated in environment E binds s, to the value
\* of e, in the topmost environment of E's chain and changes nothing else:
\* no other environment is modified and the current environment stays E.
C11_DefGlobalKeepsCurrentEnv ==
  [][ev'.op = "def-global" /\ ev'.kind = "none" =>
       LET g == topmost(objs, ev'.o.id)
       IN /\ BoundValues(objs', g, ev'.k) = {ev'.out}
          /\ ev'.val.type = TINT =>
               \A o \in ObjIds \ {g} : objs'[o] = objs[o]
          /\ envs' = envs]_vars

\* the expression e is itself a form that binds s
Defines(e, s) == e.type = "form" /\ e.sym = s

\* C12: (set s e) on a bare Symbol s.  When some environment of the current
\* chain binds s, the binding in the nearest such environment becomes the
\* value of e and set itself creates no binding: every other environment
\* binds s as before (e itself not being a form that binds s).  When none
\* binds s, "Unbound variable" is raised and no environment is modified.
C12_SetUpdatesNearestBinding ==
  [][ev'.op = "set" =>
       LET ch == Chain(objs, ev'.o.id)
           s == ev'.k
       IN IF Binders(objs, ch, s) = {}
          THEN /\ ev'.kind = "check" /\ ev'.msg = "Unbound variable"
               /\ objs' = objs /\ envs' = envs
          ELSE /\ ev'.kind = "none"
               /\ BoundValues(objs', Nearest(objs, ch, s), s) = {ev'.out}
               /\ ~Defines(ev'.val, s) =>
                    \A o \in ObjIds \ {Nearest(objs, ch, s)} :
                      BoundValues(objs', o, s) = BoundValues(objs, o, s)]_vars

\* C12 witness: a (set s e) has updated a binding that an enclosing
\* environment holds, from a frame that does not bind s itself
C12_Witness ==
  /\ ev.op = "set" /\ ev.kind = "none"
  /\ ~Binds(objs, ev.o.id, ev.k)
  /\ \E o \in ObjIds : BoundValues(objs, o, ev.k) = {ev.out}

\* the bindings push_env is to make of the formals vars and the values vals
RECURSIVE Expected(_, _)
Expected(formals, vals) ==
  IF formals.type = TCELL
  THEN {<<formals.car, vals.car>>} \cup Expected(formals.cdr, vals.cdr)
  ELSE IF formals # Nil THEN {<<formals, vals>>} ELSE {}

\* the elements of a list
RECURSIVE Elems(_)
Elems(l) == IF l.type = TCELL THEN {l.car} \cup Elems(l.cdr) ELSE {}

\* the value the property list al (in order) leaves bound to the name k
LastValue(al, k) ==
  al[CHOOSE i \in 1..Len(al) :
       al[i][1] = k /\ \A j \in (i + 1)..Len(al) : al[j][1] # k][2]

\* C13: push_env(parent, params, values) returns a new object whose proto
\* is parent and whose own bindings are exactly those of the formals (a
\* lone Symbol gets the whole values list, a Symbol tail the remaining
\* values), and parent is not modified; the frame is built by
\* make_obj_alist, which returns an object holding exactly the bindings of
\* the list it is given.
C13_PushEnvBindsExactly ==
  [][/\ ev'.op = "apply" /\ ev'.kind = "none" =>
          /\ objs'[ev'.out.id].proto = ev'.o
          /\ Cells(objs')[ev'.out.id] = Expected(ev'.k, ev'.val)
          /\ objs'[ev'.o.id] = objs[ev'.o.id]
     /\ pc' \in {"done", "undefined"} =>
          /\ result'.kind = "value"
          /\ result'.v.proto = Nil
          /\ {<<c.car, c.cdr>> :
                c \in UNION {Elems(result'.v.props[b]) : b \in Buckets}}
               = {<<make_symbol(input'.alist[i][1]),
                    make_int(LastValue(input'.alist, input'.alist[i][1]))>> :
                    i \in 1..Len(input'.alist)}]_vars

\* what the head of an application denotes in the environment env: the
\* head itself, or the value of its nearest binding (Nil when unbound)
Callee(os, env, head) ==
  IF head.type # TSYM THEN head
  ELSE IF Binders(os, Chain(os, env), head) = {} THEN Nil
  ELSE CHOOSE v \in BoundValues(os, Nearest(os, Chain(os, env), head), head) :
         TRUE

\* C14: when the head of a form is a Symbol bound to a Macro, or is a Macro
\* value, no argument form is evaluated before the expansion: the macro
\* body runs in a new frame on the macro's captured environment with the
\* formals bound to the unevaluated argument forms, and the form it
\* produces is evaluated in the caller's environment.  With the macros of
\* the model: (macro (r) r) produces its argument form, (macro (r) 2) the
\* Integer 2; the argument form (def a 1) binds a when it is evaluated.
C14_MacroArgsUnevaluated ==
  [][ev'.op = "call" =>
       LET caller == ev'.o.id
           M == Callee(objs, caller, ev'.k)
           f == NewObj(objs)
           X == IF M.body = list1(SymR) THEN ev'.val.car ELSE M.body.car
       IN M.type = TMAC /\ ev'.val # Nil =>
            /\ ev'.kind = "none"
            /\ objs'[f].proto = M.env
            /\ Cells(objs')[f] = Expected(M.params, ev'.val)
            /\ envs' = envs
            /\ IF X = ArgForm
               THEN /\ ev'.out = make_int(1)
                    /\ BoundValues(objs', caller, SymA) = {make_int(1)}
                    /\ \A o \in ObjIds \ {caller, f} : objs'[o] = objs[o]
               ELSE /\ ev'.out = X
                    /\ \A o \in ObjIds \ {f} : objs'[o] = objs[o]]_vars

\* C14 witness: a form whose head is a symbol bound to a macro has been
\* evaluated in a frame other than the macro's environment: the macro's
\* frame binds the formal to the argument form itself, and the expansion
\* (def a 1) has bound a in the caller's frame
C14_Witness ==
  /\ ev.op = "call" /\ ev.kind = "none"
  /\ ev.k = SymB /\ ev.val = list1(ArgForm)
  /\ BoundValues(objs, ev.o.id, SymA) = {make_int(1)}
  /\ \E f \in ObjIds :
       /\ Cells(objs)[f] = {<<SymR, ArgForm>>}
       /\ objs[f].proto # ev.o

\* the trap-error calls whose thunk is being evaluated
ThunksInProgress == {i \in 1..Len(traps) : traps[i].phase = "thunk"}

\* C19: error_depth counts the trap-error calls in progress -- those
\* entered whose thunk has neither returned nor raised -- so the fatal
\* "max error depth" exit is taken only with MAX_ERROR_DEPTH of them nested.
C19_DepthCountsCallsInProgress ==
  /\ proc = "running" => error_depth = Cardinality(ThunksInProgress)
  /\ ev.op = "overflow" => Cardinality(ThunksInProgress) >= MAX_ERROR_DEPTH

\* C20: no operation reads through a heap address that it took before a
\* call that may allocate, unless a root slot holds it: when
\* make_obj_alist reads pair->car or pair->cdr, pair is not an address
\* that a collection has invalidated.
C20_HandleDiscipline ==
  pc \in {"loop", "advance"} => pair # Dangling

\* C15: reader round trip for atoms: for every Integer n, every String s
\* of printable bytes (also one that contains or ends with a backslash or
\* a double quote) and every Symbol sym (also one whose name contains ':'),
\* read-sexp of pr-str of the atom returns an equal atom.
C15_AtomsRoundTrip ==
  rd.op = "round-trip" => rd.out = rd.val

\* the elements of the alist literal that text is: the characters between
\* the braces that are not spaces, each one a Symbol or an Integer
AlistElems(text) ==
  LET cs == SelectSeq(SubSeq(text, 2, Len(text) - 1), LAMBDA c : c # " ")
  IN [i \in 1..Len(cs) |->
        IF isdigit(cs[i]) THEN make_int(DigitVal(cs[i]))
        ELSE make_symbol(<<cs[i]>>)]

\* C16: an alist literal {k1 v1 ... kn vn} with an even number of elements
\* is read as the list (list (cons k1 v1) ... (cons kn vn)), the pairs in
\* source order; with an odd number of elements it is a reader error.
C16_AlistLiteralInSourceOrder ==
  rd.op = "read-sexp" /\ rd.text \in AlistTexts /\ AlistElems(rd.text) # <<>> =>
    LET es == AlistElems(rd.text)
    IN IF Len(es) % 2 # 0 THEN rd.out.type = "error"
       ELSE rd.out =
              cons(make_symbol(<<"l", "i", "s", "t">>),
                   ListOf([i \in 1..(Len(es) \div 2) |->
                             ListOf(<<make_symbol(<<"c", "o", "n", "s">>),
                                      es[2 * i - 1], es[2 * i]>>, Nil)], Nil))

\* the expression a piece of text denotes
PieceValue(x) ==
  CASE x = <<"a">> -> make_symbol(<<"a">>)
    [] x = <<"1", "2">> -> make_int(12)
    [] x = <<"\"", "a", "\"">> -> make_str(<<"a">>)
    [] x = <<"(", "a", " ", "1", ")">> ->
         ListOf(<<make_symbol(<<"a">>), make_int(1)>>, Nil)
    [] x = <<"{", "a", " ", "1", "}">> ->
         ListOf(<<make_symbol(<<"l", "i", "s", "t">>),
                  ListOf(<<make_symbol(<<"c", "o", "n", "s">>),
                           make_symbol(<<"a">>), make_int(1)>>, Nil)>>, Nil)

\* the expressions of a text made of the pieces q: all but the comments
Expressions(q) ==
  LET es == SelectSeq(q, LAMBDA x : x[1] # ";")
  IN [i \in 1..Len(es) |-> PieceValue(es[i])]

\* C17: read-sexp returns the single expression of a text that holds
\* exactly one, the list (do e1 ... en), in source order, for a text that
\* holds n > 1, and Nil for a text that holds none (empty, or whitespace
\* and comments only).
C17_ReadSexpWrapsInDo ==
  rd.op = "read-sexp" =>
    \A q \in SeqsUpTo(Pieces \ {<<")">>}, MaxPieces) :
      Join(q) = rd.text =>
        rd.out = IF Len(Expressions(q)) = 0 THEN Nil
                 ELSE IF Len(Expressions(q)) = 1 THEN Expressions(q)[1]
                 ELSE cons(make_symbol(<<"d", "o">>),
                           ListOf(Expressions(q), Nil))

\* the ids of the watchers registered and not stopped
Registered(mem) == {mem[a].id : a \in {x \in WAddr : mem[x].live}}

\* C18: after (ev-stop id) returns True for a registered watcher the
\* watcher list no longer holds it, at the head or elsewhere, so a later
\* root walk visits live records only and a second (ev-stop id) returns
\* Nil; for an unknown id (ev-stop id) returns Nil and leaves the list as
\* it was.
C18_EvStopRemovesWatcher ==
  [][evr'.n # evr.n /\ evr'.op = "ev-stop" /\ evr'.out.type # "error" =>
       LET ws == watcher_walk(ev_watchers', wmem', MaxWatchers + 1)
       IN IF evr'.id \in Registered(wmem)
            THEN /\ evr'.out = True
                 /\ \A i \in 1..Len(ws) :
                      wmem'[ws[i]].live /\ wmem'[ws[i]].id # evr'.id
            ELSE /\ evr'.out = Nil
                 /\ UNCHANGED <<ev_watchers, wmem>>]_vars

\* the pointer fields of a heap object (the union of Val, shi.c:98-124)
Edges(o) ==
  CASE o.type = TCELL -> {o.car, o.cdr}
    [] o.type = TOBJ -> {o.proto} \cup {o.props[b] : b \in Buckets}
    [] o.type \in {TFUN, TMAC} -> {o.params, o.body, o.env}
    [] OTHER -> {}

AddrsOf(ps) == {p.addr : p \in {q \in ps : IsHeap(q)}}

\* the addresses reachable in mem from the addresses A
RECURSIVE ReachFrom(_, _)
ReachFrom(mem, A) ==
  LET B == A \cup AddrsOf(UNION {Edges(mem[a]) : a \in A})
  IN IF B = A THEN A ELSE ReachFrom(mem, B)

\* the roots of a snapshot: the symbol list, the slots of the root frames,
\* the env and callback of the registered watchers
RootPtrs(sn) ==
  {sn.symbols} \cup {sn.roots[n] : n \in DOMAIN sn.roots}
    \cup {sn.wr[i] : i \in DOMAIN sn.wr}

\* where a pointer of the from-space leads after the move
MovedTo(fwd, p) == IF IsHeap(p) THEN Ptr(fwd[p.addr]) ELSE p

\* the object o with its edges led through the move
Image(o, fwd) ==
  CASE o.type = TCELL ->
         [o EXCEPT !.car = MovedTo(fwd, o.car), !.cdr = MovedTo(fwd, o.cdr)]
    [] o.type = TOBJ ->
         [o EXCEPT !.proto = MovedTo(fwd, o.proto),
                   !.props = [b \in Buckets |-> MovedTo(fwd, o.props[b])]]
    [] o.type \in {TFUN, TMAC} ->
         [o EXCEPT !.params = MovedTo(fwd, o.params),
                   !.body = MovedTo(fwd, o.body),
                   !.env = MovedTo(fwd, o.env)]
    [] OTHER -> o

\* the collection that wrote the tombstones fwd turned snapshot b into
\* snapshot a: fwd is a bijection from the objects reachable in b onto the
\* objects of a that keeps tags, payloads and edges, and the roots of a are
\* the images of the roots of b
GraphPreserved(b, a, fwd) ==
  LET R == ReachFrom(b.memory, AddrsOf(RootPtrs(b)))
  IN /\ {i \in 1..Len(b.memory) : fwd[i] # 0} = R
     /\ \A i \in R : fwd[i] \in 1..Len(a.memory)
     /\ \A i, j \in R : i # j => fwd[i] # fwd[j]
     /\ Len(a.memory) = Cardinality(R)
     /\ \A i \in R : a.memory[fwd[i]] = Image(b.memory[i], fwd)
     /\ a.symbols = MovedTo(fwd, b.symbols)
     /\ a.roots = [n \in DOMAIN b.roots |-> MovedTo(fwd, b.roots[n])]
     /\ a.wr = [i \in DOMAIN b.wr |-> MovedTo(fwd, b.wr[i])]

\* C21: a collection preserves the graph reachable from the roots (symbol
\* list, every slot of every root frame, every watcher's env and callback):
\* it always completes, and what it leaves is an isomorphic copy in which
\* every reachable object was copied exactly once and nothing refers to
\* the from-space.
C21_GcPreservesReachableGraph ==
  /\ gcs.phase \notin {"undefined", "hang"}
  /\ gcs.ended => GraphPreserved(gcs.before, gcs.after, gcs.fwd)

\* the bytes of the objects a collection copied
BytesCopied ==
  bytes_of(gcs.before.memory) -
  bytes_of([k \in 1..Cardinality({i \in 1..Len(gcs.fwd) : gcs.fwd[i] = 0}) |->
              gcs.before.memory[
                CHOOSE i \in 1..Len(gcs.fwd) :
                  /\ gcs.fwd[i] = 0
                  /\ Cardinality({j \in 1..i : gcs.fwd[j] = 0}) = k]])

\* C22: gc is never entered while gc_running is set and nothing is
\* allocated while it is set; when a collection has ended gc_running is
\* clear and mem_nused is the scan pointer's offset in the to-space, the
\* total size of the objects copied.
C22_GcBookkeeping ==
  /\ ~gcs.entered_running
  /\ ~gcs.alloc_running
  /\ gcs.ended =>
       /\ ~gc_running
       /\ gcs.phase \in {"full", "exhausted"} =>
            /\ mem_nused = bytes_of(SubSeq(memory, 1, gcs.scan1 - 1))
            /\ gcs.scan1 = Len(memory) + 1
            /\ mem_nused = BytesCopied

\* C22 witness: a collection started by memory pressure has ended and
\* left fewer bytes in use than it found
C22_Witness ==
  /\ gcs.ended /\ gcs.phase = "exhausted" /\ ~always_gc
  /\ 0 < mem_nused /\ mem_nused < bytes_of(gcs.before.memory)

\* C23: in every property table each key has at most one entry, and every
\* entry lies in the bucket that obj_hash selects for its key; this holds
\* after every obj, obj-set, def, set and obj-del.
C23_OneEntryPerKeyInHashBucket ==
  \A o \in ObjIds : \A b \in Buckets :
    \A i \in 1..Len(objs[o].props[b]) :
      /\ obj_hash(objs[o].props[b][i][1]) = b
      /\ \A j \in 1..Len(objs[o].props[b]) :
           obj_key_eq(objs[o].props[b][i][1], objs[o].props[b][j][1])
             => i = j

\* C23 witness: obj-set has overwritten a key whose bucket also holds another
\* key with the same hash
C23_Witness ==
  /\ ev.op = "obj-set" /\ ev.kind = "none" /\ ev.o.type = TOBJ
  /\ objs[ev.o.id].props[obj_hash(SymA)] =
       <<<<StrA, make_int(1)>>, <<SymA, make_int(2)>>>>
  /\ ev.k = SymA

\* the tables of the prototypes of object o, nearest first
RECURSIVE ProtoTables(_, _)
ProtoTables(os, o) ==
  IF os[o].proto = Nil THEN <<>>
  ELSE <<os[os[o].proto.id].props>> \o ProtoTables(os, os[o].proto.id)

\* C24: an obj-set of key k to v on object o that completes changes the own
\* table of o and nothing else: every other object, the prototypes of o
\* included, keeps its table and o keeps its prototype link; o then has an
\* entry of its own for k, and the chain lookup of k from o yields v.
C24_ObjSetWritesOwnTable ==
  [][(ev'.op = "obj-set" /\ ev'.kind = "none" /\ steps' = steps + 1) =>
       /\ \A p \in ObjIds \ {ev'.o.id} : objs'[p] = objs[p]
       /\ objs'[ev'.o.id].proto = objs[ev'.o.id].proto
       /\ ProtoTables(objs', ev'.o.id) = ProtoTables(objs, ev'.o.id)
       /\ obj_get(objs', ev'.o.id, ev'.k) # 0
       /\ objs'[ev'.o.id].props[obj_hash(ev'.k)]
                               [obj_get(objs', ev'.o.id, ev'.k)][2] = ev'.val
       /\ obj_find(objs', ev'.o, ev'.k).obj = ev'.o.id
       /\ CellVal(objs', obj_find(objs', ev'.o, ev'.k)) = ev'.val]_vars

\* C24 witness: obj-set has bound, in an object, a key that its prototype
\* binds to another value; the prototype still holds its own value
C24_Witness ==
  /\ ev.op = "obj-set" /\ ev.kind = "none" /\ ev.o.type = TOBJ
  /\ objs[ev.o.id].proto # Nil
  /\ obj_get(objs, objs[ev.o.id].proto.id, ev.k) # 0
  /\ CellVal(objs, obj_find(objs, objs[ev.o.id].proto, ev.k)) # ev.val
  /\ CellVal(objs, obj_find(objs, ev.o, ev.k)) = ev.val

\* bucket list without the entries of key k
Without(list, k) == SelectSeq(list, LAMBDA c : ~obj_key_eq(k, c[1]))

\* C25: a deletion of key k from object o -- the primitive obj-del, or
\* obj_del itself -- does not crash, and changes nothing except that the own table
\* of o loses the entry of k: the other keys of o, those in the bucket of
\* k included, keep their entries and values, an absent k leaves o as it
\* was, and no other object changes.
C25_DelRemovesOnlyTheKey ==
  [][(ev'.op \in {"obj-del", "obj_del"} /\ steps' = steps + 1) =>
       /\ proc' # "undefined: crash"
       /\ \A p \in ObjIds \ {ev'.o.id} : objs'[p] = objs[p]
       /\ objs'[ev'.o.id].proto = objs[ev'.o.id].proto
       /\ \A b \in Buckets :
            objs'[ev'.o.id].props[b] = Without(objs[ev'.o.id].props[b], ev'.k)
     ]_vars

\* C26: the prototype link of every Object is an Object or Nil, whatever
\* obj, obj-proto-set!, closure calls and def-global have been given.
C26_ProtoIsObjectOrNil ==
  \A o \in ObjIds :
    objs[o].used => (objs[o].proto = Nil \/ objs[o].proto.type = TOBJ)

\* the value n prototype links away from value v; a value that is no
\* Object has no link
RECURSIVE ProtoNth(_, _, _)
ProtoNth(os, v, n) ==
  IF n = 0 \/ v.type # TOBJ THEN v ELSE ProtoNth(os, os[v.id].proto, n - 1)

\* C28: every lookup and every walk to the topmost environment returns:
\* no walk has been left running, and no Object is its own prototype at
\* any distance, so every chain is finite.
C28_ChainWalksTerminate ==
  /\ proc # "hang"
  /\ \A o \in ObjIds : \A n \in 1..MaxObj :
       objs[o].used => ProtoNth(objs, ObjRef(o), n) # ObjRef(o)

\* the values reader_expr hands to its callers for ), }, . and the end of
\* the input
Sentinels == {Cparen, Ccurly, Dot, NullPtr}

\* no node of the tree v is a sentinel
RECURSIVE NoSentinel(_)
NoSentinel(v) ==
  /\ v \notin Sentinels
  /\ v.type = TCELL => NoSentinel(v.car) /\ NoSentinel(v.cdr)

\* C27: read-sexp raises an error or returns a tree none of whose nodes --
\* list element, dotted tail, operand of a quote, quasiquote, unquote or
\* unbox prefix -- is the sentinel of ), } or . or the end-of-input marker.
C27_SentinelsNeverEscape ==
  (rd.op = "read-sexp" /\ rd.out.type # "error") => NoSentinel(rd.out)

\* C29: reading any text leaves the fields of the static Nil as they were
\* initialized: its cdr is still the null pointer.
C29_NilIsNeverWritten ==
  rd.nil_cdr = NullPtr

\* C30: (apply f args) evaluates f and args once and hands the elements of
\* the list to f as values, whether f is a Closure or a Primitive.  The
\* list is a quoted constant here, so nothing but a second evaluation of an
\* element can bind a symbol or look one up: the call leaves every
\* existing environment as it was, the identity closure returns its
\* argument as it stands, and cons of two elements returns the pair of
\* the two elements as they stand.
C30_ApplyEvaluatesOnce ==
  [][(ev'.op = "prim_apply" /\ steps' = steps + 1) =>
       /\ \A o \in ObjIds : objs[o].used => objs'[o] = objs[o]
       /\ (ev'.k = Identity /\ length(ev'.val) = 1)
            => (ev'.kind = "none" /\ ev'.out = ev'.val.car)
       /\ (ev'.k = make_primitive("cons") /\ length(ev'.val) = 2)
            => (ev'.kind = "none"
                /\ ev'.out = cons(ev'.val.car, ev'.val.cdr.car))
     ]_vars

====
